---- MODULE Spec2Model ----
(***************************************************************************)
(* Model of cmdrx: the credential resolver of ConfigManager (config.py),   *)
(* the provider validation, client construction and dispatch of            *)
(* LLMProvider (llm.py), the handling of the reply in CmdRxCore (core.py)  *)
(* and OutputGenerator (output.py), and the part of cli.main that drives   *)
(* them.                                                                   *)
(*                                                                         *)
(* Python values are modelled as follows.  A str is a TLA+ string; None is *)
(* the reserved string None below, which no program string equals.  A dict *)
(* is a function whose DOMAIN is the set of its keys.  An exception is a   *)
(* record [type, msg] where msg is the sequence of the pieces the message  *)
(* is formatted from, so that f"prefix: {e}" is <<"prefix: ">> \o e.msg.   *)
(* A file mode is the integer value of its permission bits.  A value      *)
(* json.loads returns is a record [kind, val] of its Python type and the  *)
(* value; a JSON text is the string a serialiser writes for it.           *)
(***************************************************************************)
EXTENDS Integers, Sequences, FiniteSets, TLC

\* ------------------------------------------------------------------------
\* Bounds
\* ------------------------------------------------------------------------

\* Number of distinct non-empty secret strings the sources may hold.
NumSecrets == 2

\* ------------------------------------------------------------------------
\* Python values
\* ------------------------------------------------------------------------

None == "<None>"

NoExc == [type |-> "none", msg |-> << >>]

Exc(t, m) == [type |-> t, msg |-> m]

\* bool(v) of an Optional[str]
Truthy(v) == v # None /\ v # ""

EmptyDict == [k \in {} |-> ""]

\* dict update d[k] = v
DictSet(d, k, v) == [x \in (DOMAIN d) \cup {k} |-> IF x = k THEN v ELSE d[x]]

\* s occurs in t as a run of consecutive pieces
Contains(t, s) ==
    \E i \in 0..(Len(t) - Len(s)) : SubSeq(t, i + 1, i + Len(s)) = s

\* dict.get(k) / dict.get(k, default)
DictGet(d, k, default) == IF k \in DOMAIN d THEN d[k] ELSE default

Dicts(K, V) == UNION {[D -> V] : D \in SUBSET K}

Secrets == {"s" \o ToString(i) : i \in 1..NumSecrets}

\* ------------------------------------------------------------------------
\* File modes
\* ------------------------------------------------------------------------

Octal(u, g, o) == u * 64 + g * 8 + o

\* 0o600, the mode os.chmod gives credentials.json
OwnerOnly == Octal(6, 0, 0)

\* mode of a file created by open(.., 'w') under the usual umask 022
CreateMode == Octal(6, 4, 4)

OwnerCanRead(mode) == (mode \div 256) % 2 = 1

OwnerCanWrite(mode) == (mode \div 128) % 2 = 1

\* modes credentials.json may be found with when the program starts
FileModes == {OwnerOnly, CreateMode, Octal(2, 0, 0), Octal(4, 0, 0)}

\* ------------------------------------------------------------------------
\* Credential keys and the environment variable naming
\* ------------------------------------------------------------------------

PREDEFINED_PROVIDERS == {"openai", "anthropic", "grok"}

ApiKeyName(provider) == provider \o "_api_key"

LLMKeys == {ApiKeyName(p) : p \in PREDEFINED_PROVIDERS}
             \cup {"custom_api_key", "custom_bearer_token"}

\* keys the credential-resolver specification stores and resolves
CredKeys == {"custom_api_key", "custom_bearer_token"}

\* str.upper() on the credential keys
Upper(key) ==
    CASE key = "openai_api_key"      -> "OPENAI_API_KEY"
      [] key = "anthropic_api_key"   -> "ANTHROPIC_API_KEY"
      [] key = "grok_api_key"        -> "GROK_API_KEY"
      [] key = "custom_api_key"      -> "CUSTOM_API_KEY"
      [] key = "custom_bearer_token" -> "CUSTOM_BEARER_TOKEN"

\* env_var = f"CMDRX_{key.upper()}"
EnvVarName(key) == "CMDRX_" \o Upper(key)

\* a variable whose name differs from EnvVarName only in case; os.getenv is
\* case-sensitive, so the resolver must never read it
DecoyEnvName == "CMDRX_custom_api_key"

VARIABLES
    keyring,      \* the system keyring of service "cmdrx": dict key -> password
    environ,      \* os.environ: dict name -> value
    credsFile,    \* ~/.config/cmdrx/credentials.json
    credRes       \* outcome of the last _get_credential / _store_credential

VARIABLES
    callers       \* the _store_credential calls in progress, step by step

VARIABLES
    configFile,   \* ~/.config/cmdrx/config.json
    passed        \* the values the configuration UI passed to _store_credential

cfgVars == <<configFile, passed>>

credVars == <<keyring, environ, credsFile, credRes, callers, cfgVars>>

VARIABLES
    pc,           \* position of the invocation started by cli.main
    config,       \* ConfigManager._config as loaded by _load_config
    prompt,       \* the prompt CmdRxCore.analyze_output hands to analyze
    credentials,  \* LLMProvider.credentials
    validateRes,  \* whether _validate_config has run and what it raised
    client,       \* LLMProvider.client
    netLog,       \* the requests sent to a provider endpoint, in order
    upstream,     \* the first exception raised inside LLMProvider.analyze
    exc,          \* the exception propagating at pc, NoExc when none
    response,     \* the LLMResponse analyze returned
    exitCode,     \* status passed to sys.exit, None while running
    attempts,     \* HTTP attempts the SDK client has made for the call in flight
    reply         \* the upstream outcome the SDK call ended with

VARIABLES
    dryRun,       \* CmdRxCore.dry_run, the --dry-run flag
    analysisData, \* analysis_data of _process_llm_response
    displayed,    \* what _display_analysis put on the console
    logFile,      \* what _generate_log_file wrote
    fixScript,    \* whether _generate_fix_script wrote a script
    result        \* what analyze_output returned to main

outVars == <<dryRun, analysisData, displayed, logFile, fixScript, result>>

VARIABLES
    inputMode,    \* the input mode main selects: "standalone" or "piped"
    events,       \* the calls made, files written and messages printed, in order
    coreExc       \* the exception that left CmdRxCore, NoExc when none

runVars == <<inputMode, events, coreExc>>

llmVars == <<pc, config, prompt, credentials, validateRes, client, netLog,
             upstream, exc, response, exitCode, attempts, reply, outVars,
             runVars>>

vars == <<credVars, llmVars>>

\* ------------------------------------------------------------------------
\* credentials.json
\* ------------------------------------------------------------------------

\* kind: "object"  valid JSON whose top level is a mapping (held in map)
\*       "array"   valid JSON whose top level is not a mapping
\*       "corrupt" not JSON
\* config.json does not exist
NoConfigFile == [exists |-> FALSE, map |-> EmptyDict]

\* config.json holding the JSON object m
ConfigFileOf(m) == [exists |-> TRUE, map |-> m]

MissingFile == [exists |-> FALSE, kind |-> "none", map |-> EmptyDict, mode |-> 0]

ObjectFile(m, mode) == [exists |-> TRUE, kind |-> "object", map |-> m, mode |-> mode]

OtherFile(kind, mode) == [exists |-> TRUE, kind |-> kind, map |-> EmptyDict, mode |-> mode]

\* with open(creds_file, 'r') as f: creds = json.load(f)
ReadCredsFile(file) ==
    IF ~OwnerCanRead(file.mode)
    THEN [exc |-> Exc("PermissionError", <<"Permission denied">>),
          kind |-> "none", map |-> EmptyDict]
    ELSE IF file.kind = "corrupt"
    THEN [exc |-> Exc("JSONDecodeError", <<"Expecting value">>),
          kind |-> "none", map |-> EmptyDict]
    ELSE [exc |-> NoExc, kind |-> file.kind, map |-> file.map]

\* ------------------------------------------------------------------------
\* ConfigManager._get_credential
\* ------------------------------------------------------------------------

\* keyring.get_password(SERVICE_NAME, key); krThrows: the backend is
\* unavailable and the call raises
KeyringGet(key, krThrows) ==
    IF krThrows
    THEN [exc |-> Exc("KeyringError", <<"No recommended backend was available">>),
          val |-> None]
    ELSE [exc |-> NoExc, val |-> DictGet(keyring, key, None)]

\* os.getenv(env_var)
OsGetenv(name) == DictGet(environ, name, None)

\* body of the try of method 3: open, json.load, creds.get(key)
FileCredential(file, key) ==
    LET rd == ReadCredsFile(file)
    IN  IF rd.exc # NoExc
        THEN [exc |-> rd.exc, val |-> None]
        ELSE IF rd.kind # "object"
        THEN [exc |-> Exc("AttributeError", <<"'list' object has no attribute 'get'">>),
              val |-> None]
        ELSE [exc |-> NoExc, val |-> DictGet(rd.map, key, None)]

\* get_credential with the environment consulted before the keyring
get_credential_env_first(key, krThrows) ==
    LET kr  == KeyringGet(key, krThrows)
        env == OsGetenv(EnvVarName(key))
        fl  == FileCredential(credsFile, key)
    IN  IF Truthy(env)
        THEN [ret |-> env, raised |-> NoExc, tried |-> <<"env">>]
        ELSE IF kr.exc = NoExc /\ Truthy(kr.val)
        THEN [ret |-> kr.val, raised |-> NoExc, tried |-> <<"env", "keyring">>]
        ELSE IF credsFile.exists /\ fl.exc = NoExc /\ Truthy(fl.val)
        THEN [ret |-> fl.val, raised |-> NoExc, tried |-> <<"env", "keyring", "file">>]
        ELSE [ret |-> None, raised |-> NoExc, tried |-> <<"env", "keyring", "file">>]

\* get_credential without the try around keyring.get_password: the keyring's
\* exception escapes and neither the environment nor the file is consulted
get_credential_keyring_fatal(key, krThrows) ==
    LET kr  == KeyringGet(key, krThrows)
        env == OsGetenv(EnvVarName(key))
        fl  == FileCredential(credsFile, key)
    IN  IF kr.exc # NoExc
        THEN [ret |-> None, raised |-> kr.exc, tried |-> <<"keyring">>]
        ELSE IF Truthy(kr.val)
        THEN [ret |-> kr.val, raised |-> NoExc, tried |-> <<"keyring">>]
        ELSE IF Truthy(env)
        THEN [ret |-> env, raised |-> NoExc, tried |-> <<"keyring", "env">>]
        ELSE IF credsFile.exists /\ fl.exc = NoExc /\ Truthy(fl.val)
        THEN [ret |-> fl.val, raised |-> NoExc, tried |-> <<"keyring", "env", "file">>]
        ELSE [ret |-> None, raised |-> NoExc, tried |-> <<"keyring", "env", "file">>]

\* The result names the value returned, the exception that escapes (every
\* except clause of the method swallows what it catches) and the sources
\* consulted, in the order they were consulted.
get_credential(key, krThrows) ==
    LET kr  == KeyringGet(key, krThrows)
        env == OsGetenv(EnvVarName(key))
        fl  == FileCredential(credsFile, key)
    IN  IF kr.exc = NoExc /\ Truthy(kr.val)
        THEN [ret |-> kr.val, raised |-> NoExc, tried |-> <<"keyring">>]
        ELSE IF Truthy(env)
        THEN [ret |-> env, raised |-> NoExc, tried |-> <<"keyring", "env">>]
        ELSE IF credsFile.exists /\ fl.exc = NoExc /\ Truthy(fl.val)
        THEN [ret |-> fl.val, raised |-> NoExc, tried |-> <<"keyring", "env", "file">>]
        ELSE [ret |-> None, raised |-> NoExc, tried |-> <<"keyring", "env", "file">>]

\* ------------------------------------------------------------------------
\* ConfigManager._store_credential
\* ------------------------------------------------------------------------

\* with open(creds_file, 'w') as f: json.dump(creds, f): the file is
\* truncated or created; an existing file keeps its mode
WriteCredsFile(file, creds) ==
    ObjectFile(creds, IF file.exists THEN file.mode ELSE CreateMode)

\* os.chmod(creds_file, 0o600)
Chmod(file, mode) == [file EXCEPT !.mode = mode]

\* open(creds_file, 'w') succeeds: an existing file must be writable by its
\* owner; ioFails stands for the failures of the directory or the device
\* (read-only file system, disk full)
CanWriteCredsFile(file, ioFails) ==
    ~ioFails /\ (file.exists => OwnerCanWrite(file.mode))

\* "Load existing credentials": creds = {} unless the file exists and loads
LoadExistingCreds(file) ==
    LET rd == ReadCredsFile(file)
    IN  IF file.exists /\ rd.exc = NoExc
        THEN [kind |-> rd.kind, map |-> rd.map]
        ELSE [kind |-> "object", map |-> EmptyDict]

\* The result names the keyring and the file after the call, the exception
\* that escapes and the path taken.
store_credential(key, value, krThrows, ioFails) ==
    IF ~krThrows
    THEN [kr |-> DictSet(keyring, key, value), file |-> credsFile,
          raised |-> NoExc, path |-> "keyring", wrote |-> FALSE]
    ELSE
      LET creds == LoadExistingCreds(credsFile)
      IN  IF creds.kind # "object"
          THEN \* creds[key] = value on a list: outside every try
               [kr |-> keyring, file |-> credsFile,
                raised |-> Exc("TypeError", <<"list indices must be integers or slices, not str">>),
                path |-> "file", wrote |-> FALSE]
          ELSE IF ~CanWriteCredsFile(credsFile, ioFails)
          THEN [kr |-> keyring, file |-> credsFile,
                raised |-> Exc("SecurityError",
                               <<"Failed to store credential '", key, "': ",
                                 "Permission denied">>),
                path |-> "file", wrote |-> FALSE]
          ELSE [kr |-> keyring,
                file |-> Chmod(WriteCredsFile(credsFile, DictSet(creds.map, key, value)),
                               OwnerOnly),
                raised |-> NoExc, path |-> "file", wrote |-> TRUE]

\* ------------------------------------------------------------------------
\* ConfigManager._store_credential, statement by statement
\* ------------------------------------------------------------------------

\* two processes, or two threads of one, inside _store_credential
Callers == {"A", "B"}

\* the key each caller stores; the two differ
KeyOf(c) == IF c = "A" THEN "custom_api_key" ELSE "custom_bearer_token"

\* the local variable creds before "creds = {}"
NoCreds == [kind |-> "none", map |-> EmptyDict]

\* a caller that has not entered _store_credential
IdleCaller == [pc |-> "idle", key |-> None, value |-> None, creds |-> NoCreds,
               path |-> None, raised |-> NoExc]

NoCallers == [c \in Callers |-> IdleCaller]

\* a caller about to execute the first statement
EnteredCaller(c, value) ==
    [IdleCaller EXCEPT !.pc = "set_password", !.key = KeyOf(c), !.value = value]

\* open(creds_file, 'w') before anything is written: the file is created
\* with the default mode or truncated with the mode it had; an empty file
\* does not decode
TruncatedFile(file) ==
    OtherFile("corrupt", IF file.exists THEN file.mode ELSE CreateMode)

\* keyring.set_password(SERVICE_NAME, key, value); return
StoreSetPassword(c) ==
    \E krThrows \in BOOLEAN :
      /\ callers[c].pc = "set_password"
      /\ IF krThrows
         THEN /\ callers' = [callers EXCEPT ![c].pc = "exists", ![c].path = "file"]
              /\ UNCHANGED keyring
         ELSE /\ keyring' = DictSet(keyring, callers[c].key, callers[c].value)
              /\ callers' = [callers EXCEPT ![c].pc = "returned", ![c].path = "keyring"]
      /\ UNCHANGED <<environ, credsFile, credRes, cfgVars>>
      /\ UNCHANGED llmVars

\* creds = {}; if creds_file.exists():
StoreExists(c) ==
    /\ callers[c].pc = "exists"
    /\ callers' = [callers EXCEPT
                     ![c].pc = IF credsFile.exists THEN "load" ELSE "update",
                     ![c].creds = [kind |-> "object", map |-> EmptyDict]]
    /\ UNCHANGED <<keyring, environ, credsFile, credRes, cfgVars>>
    /\ UNCHANGED llmVars

\* try: with open(creds_file, 'r') as f: creds = json.load(f)
\* except Exception: pass
StoreLoad(c) ==
    /\ callers[c].pc = "load"
    /\ callers' = [callers EXCEPT ![c].pc = "update",
                                  ![c].creds = LoadExistingCreds(credsFile)]
    /\ UNCHANGED <<keyring, environ, credsFile, credRes, cfgVars>>
    /\ UNCHANGED llmVars

\* creds[key] = value
StoreUpdate(c) ==
    /\ callers[c].pc = "update"
    /\ IF callers[c].creds.kind # "object"
       THEN callers' = [callers EXCEPT
                ![c].pc = "raised",
                ![c].raised = Exc("TypeError",
                                  <<"list indices must be integers or slices, not str">>)]
       ELSE callers' = [callers EXCEPT
                ![c].pc = "open",
                ![c].creds.map = DictSet(callers[c].creds.map,
                                         callers[c].key, callers[c].value)]
    /\ UNCHANGED <<keyring, environ, credsFile, credRes, cfgVars>>
    /\ UNCHANGED llmVars

\* with open(creds_file, 'w') as f:
StoreOpen(c) ==
    \E ioFails \in BOOLEAN :
      /\ callers[c].pc = "open"
      /\ IF CanWriteCredsFile(credsFile, ioFails)
         THEN /\ credsFile' = TruncatedFile(credsFile)
              /\ callers' = [callers EXCEPT ![c].pc = "dump"]
         ELSE /\ callers' = [callers EXCEPT
                     ![c].pc = "raised",
                     ![c].raised = Exc("SecurityError",
                                       <<"Failed to store credential '",
                                         callers[c].key, "': ",
                                         "Permission denied">>)]
              /\ UNCHANGED credsFile
      /\ UNCHANGED <<keyring, environ, credRes, cfgVars>>
      /\ UNCHANGED llmVars

\* json.dump(creds, f, indent=2), and the file is closed
StoreDump(c) ==
    /\ callers[c].pc = "dump"
    /\ credsFile' = WriteCredsFile(credsFile, callers[c].creds.map)
    /\ callers' = [callers EXCEPT ![c].pc = "chmod"]
    /\ UNCHANGED <<keyring, environ, credRes, cfgVars>>
    /\ UNCHANGED llmVars

\* os.chmod(creds_file, 0o600)
StoreChmod(c) ==
    /\ callers[c].pc = "chmod"
    /\ credsFile' = Chmod(credsFile, OwnerOnly)
    /\ callers' = [callers EXCEPT ![c].pc = "returned"]
    /\ UNCHANGED <<keyring, environ, credRes, cfgVars>>
    /\ UNCHANGED llmVars

\* ------------------------------------------------------------------------
\* Configuration
\* ------------------------------------------------------------------------

DefaultTimeout == 30

MaxTokens == 2000

\* temperature=0.1, as the fraction 1/10
Temperature == <<1, 10>>

SystemPrompt ==
    "You are CmdRx, an expert system administrator AI assistant. Provide detailed, accurate troubleshooting information."

\* default_config of _load_config, restricted to the keys LLMProvider reads
DefaultConfig ==
    [llm_provider |-> "openai", llm_model |-> "gpt-4", llm_base_url |-> "",
     llm_auth_type |-> "api_key", llm_timeout |-> DefaultTimeout]

\* values config.json may give the keys; "gemini" stands for the provider
\* identifiers the program does not know, None for a JSON null
Providers == {None, "", "openai", "anthropic", "grok", "custom", "gemini"}

Models == {"", "gpt-4"}

BaseUrls == {"", "http://localhost:11434/v1"}

AuthTypes == {"none", "api_key", "bearer_token"}

Timeouts == {DefaultTimeout, 2 * DefaultTimeout}

\* merged_config = default_config.copy(); merged_config.update(config)
Configs ==
    {[DefaultConfig EXCEPT !.llm_provider = p, !.llm_model = m, !.llm_base_url = u,
                           !.llm_auth_type = a, !.llm_timeout = t] :
        p \in Providers, m \in Models, u \in BaseUrls, a \in AuthTypes, t \in Timeouts}

\* main runs the command given on the command line, or reads the text
\* piped into stdin
Modes == {"standalone", "piped"}

\* the command analyze_output is given: cmd_str, or "<piped input>"
CommandOf(m) == IF m = "piped" THEN "<piped input>" ELSE "df -h"

\* _generate_prompt: the prompt names the command
PromptOf(m) == "Command executed: " \o CommandOf(m)

Prompts == {PromptOf(m) : m \in Modes}

\* entries of the event log
Event(ev, arg) == [ev |-> ev, arg |-> arg]

Call(name) == Event("call", <<name>>)

Return(name, val) == Event("return", <<name, val>>)

Write(file) == Event("write", <<file>>)

Printed(msg) == Event("print", msg)

\* ------------------------------------------------------------------------
\* ConfigManager.get_llm_credentials
\* ------------------------------------------------------------------------

\* credentials[kind] = value if value (is truthy)
PutIfTruthy(kind, value) == IF Truthy(value) THEN DictSet(EmptyDict, kind, value) ELSE EmptyDict

\* no credential is looked up
NoLookup == [key |-> None, kind |-> None]

\* CredentialLookup with the bearer_token scheme reading the API key's entry
CredentialLookup_bearer_reads_api_key(cfg) ==
    LET provider == cfg.llm_provider
    IN  IF provider \in PREDEFINED_PROVIDERS
        THEN [key |-> ApiKeyName(provider), kind |-> "api_key"]
        ELSE IF provider = "custom"
        THEN IF cfg.llm_auth_type = "api_key"
             THEN [key |-> "custom_api_key", kind |-> "api_key"]
             ELSE IF cfg.llm_auth_type = "bearer_token"
             THEN [key |-> "custom_api_key", kind |-> "bearer_token"]
             ELSE NoLookup
        ELSE NoLookup

\* the branch of get_llm_credentials the configuration selects: the key
\* given to _get_credential and the entry of credentials its value fills
CredentialLookup(cfg) ==
    LET provider == cfg.llm_provider
    IN  IF provider \in PREDEFINED_PROVIDERS
        THEN [key |-> ApiKeyName(provider), kind |-> "api_key"]
        ELSE IF provider = "custom"
        THEN IF cfg.llm_auth_type = "api_key"
             THEN [key |-> "custom_api_key", kind |-> "api_key"]
             ELSE IF cfg.llm_auth_type = "bearer_token"
             THEN [key |-> "custom_bearer_token", kind |-> "bearer_token"]
             ELSE NoLookup
        ELSE NoLookup

get_llm_credentials(cfg, krThrows) ==
    LET lookup == CredentialLookup(cfg)
    IN  IF lookup = NoLookup
        THEN EmptyDict
        ELSE PutIfTruthy(lookup.kind, get_credential(lookup.key, krThrows).ret)

\* ------------------------------------------------------------------------
\* LLMProvider._validate_config and _create_client
\* ------------------------------------------------------------------------

ConfigurationError(m) == Exc("ConfigurationError", m)

LLMError(m) == Exc("LLMError", m)

\* validate_config without the check of llm_model
validate_config_no_model_check(cfg, creds) ==
    LET provider == cfg.llm_provider
        auth_type == cfg.llm_auth_type
    IN  IF ~Truthy(provider)
        THEN ConfigurationError(<<"No LLM provider configured">>)
        ELSE IF provider \in {"openai", "anthropic", "grok"} /\ "api_key" \notin DOMAIN creds
        THEN ConfigurationError(<<"API key required for ", provider>>)
        ELSE IF provider = "custom" /\ auth_type = "api_key" /\ "api_key" \notin DOMAIN creds
        THEN ConfigurationError(<<"API key required for custom provider">>)
        ELSE IF /\ provider = "custom" /\ auth_type = "bearer_token"
                /\ "bearer_token" \notin DOMAIN creds
        THEN ConfigurationError(<<"Bearer token required for custom provider">>)
        ELSE IF provider = "custom" /\ ~Truthy(cfg.llm_base_url)
        THEN ConfigurationError(<<"Base URL required for custom provider">>)
        ELSE NoExc

\* validate_config that leaves the base URL of a custom provider to
\* _create_client and asks every custom provider for an API key only
validate_config_custom_unchecked(cfg, creds) ==
    LET provider == cfg.llm_provider
        model == cfg.llm_model
    IN  IF ~Truthy(provider)
        THEN ConfigurationError(<<"No LLM provider configured">>)
        ELSE IF ~Truthy(model)
        THEN ConfigurationError(<<"No LLM model configured">>)
        ELSE IF provider \in {"openai", "anthropic", "grok"} /\ "api_key" \notin DOMAIN creds
        THEN ConfigurationError(<<"API key required for ", provider>>)
        ELSE IF /\ provider = "custom" /\ cfg.llm_auth_type = "api_key"
                /\ "api_key" \notin DOMAIN creds
        THEN ConfigurationError(<<"API key required for custom provider">>)
        ELSE NoExc

\* the exception _validate_config raises, NoExc when it returns
validate_config(cfg, creds) ==
    LET provider == cfg.llm_provider
        model == cfg.llm_model
        auth_type == cfg.llm_auth_type
    IN  IF ~Truthy(provider)
        THEN ConfigurationError(<<"No LLM provider configured">>)
        ELSE IF ~Truthy(model)
        THEN ConfigurationError(<<"No LLM model configured">>)
        ELSE IF provider \in {"openai", "anthropic", "grok"} /\ "api_key" \notin DOMAIN creds
        THEN ConfigurationError(<<"API key required for ", provider>>)
        ELSE IF provider = "custom" /\ auth_type = "api_key" /\ "api_key" \notin DOMAIN creds
        THEN ConfigurationError(<<"API key required for custom provider">>)
        ELSE IF /\ provider = "custom" /\ auth_type = "bearer_token"
                /\ "bearer_token" \notin DOMAIN creds
        THEN ConfigurationError(<<"Bearer token required for custom provider">>)
        ELSE IF provider = "custom" /\ ~Truthy(cfg.llm_base_url)
        THEN ConfigurationError(<<"Base URL required for custom provider">>)
        ELSE NoExc

\* OpenAI(...) and anthropic.Anthropic(...) are built without max_retries,
\* so the client keeps the library's default of two retries after the
\* first attempt
SDKDefaultMaxRetries == 2

NoClient == [api_key |-> None, base_url |-> None, timeout |-> 0, max_retries |-> 0]

\* the OpenAI client _create_client returns, or the exception it raises
create_client(cfg, creds) ==
    LET provider == cfg.llm_provider
        base_url == IF provider = "openai" THEN "https://api.openai.com/v1"
                    ELSE IF provider = "grok" THEN "https://api.x.ai/v1"
                    ELSE cfg.llm_base_url
    IN  IF provider = "custom" /\ ~Truthy(cfg.llm_base_url)
        THEN [exc |-> ConfigurationError(<<"Base URL required for custom provider">>),
              client |-> NoClient]
        ELSE [exc |-> NoExc,
              client |-> [api_key |-> DictGet(creds, "api_key", "not-needed"),
                          base_url |-> base_url,
                          timeout |-> cfg.llm_timeout,
                          max_retries |-> SDKDefaultMaxRetries]]

\* ------------------------------------------------------------------------
\* LLMProvider.analyze: dispatch, requests, replies
\* ------------------------------------------------------------------------

\* Longest choices / content list of an upstream reply.
MaxChoices == 2

\* ProtocolOf with every provider other than anthropic sent down the
\* OpenAI-compatible branch
ProtocolOf_else_chat(provider) ==
    IF provider = "anthropic" THEN "messages" ELSE "chat.completions"

\* ProtocolOf with grok on the Anthropic branch
ProtocolOf_grok_messages(provider) ==
    IF provider \in {"openai", "custom"} THEN "chat.completions"
    ELSE IF provider \in {"anthropic", "grok"} THEN "messages"
    ELSE "unsupported"

\* the branch analyze takes for self.provider
ProtocolOf(provider) ==
    IF provider \in {"openai", "grok", "custom"} THEN "chat.completions"
    ELSE IF provider = "anthropic" THEN "messages"
    ELSE "unsupported"

Message(role, content) == [role |-> role, content |-> content]

\* self.client.chat.completions.create(...)
OpenAIRequest(cl, cfg, p) ==
    [protocol |-> "chat.completions", api_key |-> cl.api_key, base_url |-> cl.base_url,
     timeout |-> cl.timeout, model |-> cfg.llm_model, system |-> None,
     messages |-> <<Message("system", SystemPrompt), Message("user", p)>>,
     temperature |-> Temperature, max_tokens |-> MaxTokens]

\* anthropic.Anthropic(api_key, timeout).messages.create(...)
AnthropicRequest(cfg, creds, p) ==
    [protocol |-> "messages", api_key |-> DictGet(creds, "api_key", None),
     base_url |-> "https://api.anthropic.com", timeout |-> cfg.llm_timeout,
     model |-> cfg.llm_model, system |-> SystemPrompt,
     messages |-> <<Message("user", p)>>,
     temperature |-> Temperature, max_tokens |-> MaxTokens]

\* usage of a reply or of an LLMResponse: absent, or a dict of token counts
NoUsage == [present |-> FALSE, counts |-> EmptyDict]

Usage(counts) == [present |-> TRUE, counts |-> counts]

NoResponse == [content |-> None, model |-> None, usage |-> NoUsage, provider |-> None]

\* ------------------------------------------------------------------------
\* JSON texts of the analysis and json.loads
\* ------------------------------------------------------------------------

\* the fields of the analysis object, in the order the prompt asks for them
FieldOrder ==
    <<"analysis", "status", "issues", "troubleshooting_steps", "suggested_fixes",
      "additional_info">>

Fields == {FieldOrder[i] : i \in 1..Len(FieldOrder)}

TextFields == {"analysis", "status", "additional_info"}

\* one entry of troubleshooting_steps and one of suggested_fixes
StepEntry ==
    [step |-> 1, description |-> "check disk usage", command |-> "df -h",
     explanation |-> "shows the full filesystems"]

FixEntry ==
    [description |-> "clear the package cache", commands |-> <<"apt-get clean">>,
     risk_level |-> "low", explanation |-> "frees space under /var"]

\* analysis objects with all six fields
FullObjects ==
    {[analysis |-> a, status |-> st, issues |-> i, troubleshooting_steps |-> t,
      suggested_fixes |-> f, additional_info |-> x] :
        a \in {"ok"}, st \in {"success"},
        i \in {<< >>, <<"disk full", "inode limit">>},
        t \in {<< >>, <<StepEntry>>},
        f \in {<< >>, <<FixEntry>>},
        x \in {"", "note"}}

\* analysis objects with any of the six fields left out
JsonObjects == {[k \in K |-> o[k]] : o \in FullObjects, K \in SUBSET Fields}

\* a JSON string; the texts used need no escapes
Quote(str) == "\"" \o str \o "\""

RECURSIVE Join(_)
Join(texts) ==
    IF Len(texts) = 0 THEN ""
    ELSE IF Len(texts) = 1 THEN texts[1]
    ELSE texts[1] \o ", " \o Join(Tail(texts))

DumpList(texts) == "[" \o Join(texts) \o "]"

DumpStrings(strs) == DumpList([i \in 1..Len(strs) |-> Quote(strs[i])])

DumpStep(st) ==
    "{\"step\": " \o ToString(st.step)
      \o ", \"description\": " \o Quote(st.description)
      \o ", \"command\": " \o Quote(st.command)
      \o ", \"explanation\": " \o Quote(st.explanation) \o "}"

DumpFix(fx) ==
    "{\"description\": " \o Quote(fx.description)
      \o ", \"commands\": " \o DumpStrings(fx.commands)
      \o ", \"risk_level\": " \o Quote(fx.risk_level)
      \o ", \"explanation\": " \o Quote(fx.explanation) \o "}"

DumpField(name, val) ==
    IF name \in TextFields THEN Quote(val)
    ELSE IF name = "issues" THEN DumpStrings(val)
    ELSE IF name = "troubleshooting_steps"
    THEN DumpList([i \in 1..Len(val) |-> DumpStep(val[i])])
    ELSE DumpList([i \in 1..Len(val) |-> DumpFix(val[i])])

\* the members of a JSON object text, without the braces
DumpMembers(obj) ==
    LET keys == SelectSeq(FieldOrder, LAMBDA k : k \in DOMAIN obj)
    IN  Join([i \in 1..Len(keys) |->
                Quote(keys[i]) \o ": " \o DumpField(keys[i], obj[keys[i]])])

\* the JSON text of an analysis object, as the prompt asks the model to
\* write it
Dumps(obj) == "{" \o DumpMembers(obj) \o "}"

\* a reply cut off before the closing brace
Truncated(obj) == "{" \o DumpMembers(obj)

\* what json.loads returns for the texts that are JSON objects
ObjectOfText == [t \in {Dumps(o) : o \in JsonObjects} |->
                    CHOOSE o \in JsonObjects : Dumps(o) = t]

\* a decoded JSON value: its Python type and the value
JsonValue(kind, val) == [kind |-> kind, val |-> val]

\* what json.loads returns for the texts that are JSON of another top-level
\* shape: list, str, int
OtherJson ==
    ("[]" :> JsonValue("list", << >>))
      @@ ("[\"disk full\"]" :> JsonValue("list", <<"disk full">>))
      @@ ("\"all good\"" :> JsonValue("str", "all good"))
      @@ ("42" :> JsonValue("int", 42))

\* texts that are not JSON: empty, prose, cut off
MalformedTexts ==
    {"", "not json at all"} \cup {Truncated(o) : o \in FullObjects}

\* json.loads(llm_response.content): the value returned or the exception
\* raised
json_loads(text) ==
    IF text = None
    THEN [exc |-> Exc("TypeError",
                      <<"the JSON object must be str, bytes or bytearray, not NoneType">>),
          data |-> JsonValue("none", None)]
    ELSE IF text \in DOMAIN ObjectOfText
    THEN [exc |-> NoExc, data |-> JsonValue("dict", ObjectOfText[text])]
    ELSE IF text \in DOMAIN OtherJson
    THEN [exc |-> NoExc, data |-> OtherJson[text]]
    ELSE [exc |-> Exc("JSONDecodeError", <<"Expecting value: line 1 column 1 (char 0)">>),
          data |-> JsonValue("none", None)]

\* the object of the reply the spec's scenario gives
ScenarioObject ==
    [analysis |-> "ok", status |-> "success", issues |-> << >>,
     troubleshooting_steps |-> << >>, suggested_fixes |-> << >>,
     additional_info |-> ""]

\* text of one choice / content block; None: message.content absent
ReplyTexts == {"", "not json at all", "[]", Dumps(ScenarioObject)}

\* items of a reply: the code reads the first only, so the later ones are
\* all the same text
LaterItem == "second choice"

ReplyLists(T) ==
    {<< >>} \cup {<<t>> \o [i \in 1..n |-> LaterItem] : t \in T, n \in 0..(MaxChoices - 1)}

\* what the transport raises: connection error, timeout after the client's
\* timeout, non-success status, body that does not decode
TransportErrors ==
    {Exc("APIConnectionError", <<"Connection error.">>),
     Exc("APITimeoutError", <<"Request timed out.">>),
     Exc("APIStatusError", <<"Error code: 500">>),
     Exc("JSONDecodeError", <<"Expecting value: line 1 column 1 (char 0)">>)}

\* the failures the SDK client retries before giving up: connection
\* errors, timeouts and 5xx statuses
Retryable(e) == e.type \in {"APIConnectionError", "APITimeoutError", "APIStatusError"}

NoReply == [kind |-> "none", exc |-> NoExc, items |-> << >>, usage |-> NoUsage]

Raised(e) == [kind |-> "raise", exc |-> e, items |-> << >>, usage |-> NoUsage]

Reply(items, usage) == [kind |-> "reply", exc |-> NoExc, items |-> items, usage |-> usage]

\* outcomes of chat.completions.create: items are the contents of
\* response.choices[i].message
OpenAIOutcomes ==
    {Raised(e) : e \in TransportErrors}
      \cup {Reply(c, u) :
              c \in ReplyLists(ReplyTexts \cup {None}),
              u \in {NoUsage,
                     Usage([prompt_tokens |-> 3, completion_tokens |-> 5,
                            total_tokens |-> 8])}}

\* outcomes of messages.create: items are the texts of message.content[i]
AnthropicOutcomes ==
    {Raised(e) : e \in TransportErrors}
      \cup {Reply(c, u) :
              c \in ReplyLists(ReplyTexts),
              u \in {NoUsage, Usage([input_tokens |-> 3, output_tokens |-> 5])}}

\* _analyze_openai_compatible with a usage dict of zero counts where the
\* reply has no usage
analyze_openai_compatible_zero_fill(outcome, model) ==
    LET first == IF outcome.kind = "raise" THEN outcome.exc
                 ELSE IF Len(outcome.items) = 0
                 THEN Exc("IndexError", <<"list index out of range">>)
                 ELSE NoExc
    IN  IF first # NoExc
        THEN [exc |-> LLMError(<<"OpenAI-compatible API error: ">> \o first.msg),
              first |-> first, resp |-> NoResponse]
        ELSE [exc |-> NoExc, first |-> NoExc,
              resp |-> [content |-> outcome.items[1], model |-> model,
                        usage |-> IF outcome.usage.present
                                  THEN Usage([prompt_tokens |-> outcome.usage.counts.prompt_tokens,
                                              completion_tokens |-> outcome.usage.counts.completion_tokens,
                                              total_tokens |-> outcome.usage.counts.total_tokens])
                                  ELSE Usage([prompt_tokens |-> 0, completion_tokens |-> 0,
                                              total_tokens |-> 0]),
                        provider |-> ""]]

\* _analyze_openai_compatible from the outcome of the call on: the
\* LLMResponse returned or the exception raised, and the first exception
\* raised on the way
analyze_openai_compatible(outcome, model) ==
    LET first == IF outcome.kind = "raise" THEN outcome.exc
                 ELSE IF Len(outcome.items) = 0
                 THEN Exc("IndexError", <<"list index out of range">>)
                 ELSE NoExc
    IN  IF first # NoExc
        THEN [exc |-> LLMError(<<"OpenAI-compatible API error: ">> \o first.msg),
              first |-> first, resp |-> NoResponse]
        ELSE [exc |-> NoExc, first |-> NoExc,
              resp |-> [content |-> outcome.items[1], model |-> model,
                        usage |-> IF outcome.usage.present
                                  THEN Usage([prompt_tokens |-> outcome.usage.counts.prompt_tokens,
                                              completion_tokens |-> outcome.usage.counts.completion_tokens,
                                              total_tokens |-> outcome.usage.counts.total_tokens])
                                  ELSE NoUsage,
                        provider |-> ""]]

\* _analyze_anthropic indexing message.content[0] without the emptiness test
analyze_anthropic_index_error(outcome, model) ==
    LET first == IF outcome.kind = "raise" THEN outcome.exc
                 ELSE IF Len(outcome.items) = 0
                 THEN Exc("IndexError", <<"list index out of range">>)
                 ELSE NoExc
    IN  IF first # NoExc
        THEN [exc |-> LLMError(<<"Anthropic API error: ">> \o first.msg),
              first |-> first, resp |-> NoResponse]
        ELSE [exc |-> NoExc, first |-> NoExc,
              resp |-> [content |-> outcome.items[1],
                        model |-> model,
                        usage |-> IF outcome.usage.present
                                  THEN Usage([input_tokens |-> outcome.usage.counts.input_tokens,
                                              output_tokens |-> outcome.usage.counts.output_tokens])
                                  ELSE NoUsage,
                        provider |-> ""]]

\* _analyze_anthropic from the outcome of the call on; the transport does
\* not raise ImportError, so the except ImportError clause is never taken
analyze_anthropic(outcome, model) ==
    IF outcome.kind = "raise"
    THEN [exc |-> LLMError(<<"Anthropic API error: ">> \o outcome.exc.msg),
          first |-> outcome.exc, resp |-> NoResponse]
    ELSE [exc |-> NoExc, first |-> NoExc,
          resp |-> [content |-> IF Len(outcome.items) > 0 THEN outcome.items[1] ELSE "",
                    model |-> model,
                    usage |-> IF outcome.usage.present
                              THEN Usage([input_tokens |-> outcome.usage.counts.input_tokens,
                                          output_tokens |-> outcome.usage.counts.output_tokens])
                              ELSE NoUsage,
                    provider |-> ""]]

\* analyze_except without the upstream message
analyze_except_no_cause(e) == LLMError(<<"LLM analysis failed">>)

\* except Exception as e: raise LLMError(f"LLM analysis failed: {e}")
analyze_except(e) == LLMError(<<"LLM analysis failed: ">> \o e.msg)

\* ------------------------------------------------------------------------
\* CmdRxCore._process_llm_response, _display_analysis, generate_outputs
\* ------------------------------------------------------------------------

OutputError(m) == Exc("OutputError", m)

\* the dict of the except json.JSONDecodeError clause
FallbackData(content) ==
    [analysis |-> content, status |-> "info", issues |-> << >>,
     troubleshooting_steps |-> << >>, suggested_fixes |-> << >>,
     additional_info |-> ""]

\* parse_response taking the fallback whatever json.loads does
parse_response_always_fallback(content) ==
    [exc |-> NoExc, data |-> JsonValue("dict", FallbackData(content))]

\* the try / except json.JSONDecodeError of _process_llm_response: the
\* analysis_data it goes on with, or the exception that escapes
parse_response(content) ==
    LET r == json_loads(content)
    IN  IF r.exc.type = "JSONDecodeError"
        THEN [exc |-> NoExc, data |-> JsonValue("dict", FallbackData(content))]
        ELSE r

NoDisplay == [shown |-> FALSE, status |-> None, analysis |-> None,
              issues |-> << >>, troubleshooting_steps |-> << >>,
              suggested_fixes |-> << >>, additional_info |-> None]

\* _display_analysis: the value it takes for each field, before rendering;
\* analysis_data.get raises on anything but a dict
display_analysis(data) ==
    IF data.kind # "dict"
    THEN [exc |-> Exc("AttributeError",
                      <<"'", data.kind, "' object has no attribute 'get'">>),
          out |-> NoDisplay]
    ELSE [exc |-> NoExc,
          out |-> [shown |-> TRUE,
                   status |-> DictGet(data.val, "status", "info"),
                   analysis |-> DictGet(data.val, "analysis", "No analysis provided"),
                   issues |-> DictGet(data.val, "issues", << >>),
                   troubleshooting_steps |-> DictGet(data.val, "troubleshooting_steps", << >>),
                   suggested_fixes |-> DictGet(data.val, "suggested_fixes", << >>),
                   additional_info |-> DictGet(data.val, "additional_info", "")]]

NoLogFile == [written |-> FALSE, status |-> None, analysis |-> None,
              issues |-> << >>, troubleshooting_steps |-> << >>,
              suggested_fixes |-> << >>, additional_info |-> None,
              usage |-> NoUsage, raw |-> None]

\* _create_log_content: the value it takes for each field, before
\* rendering, the usage block and the raw response
create_log_content(obj, resp) ==
    [written |-> TRUE,
     status |-> DictGet(obj, "status", "unknown"),
     analysis |-> DictGet(obj, "analysis", "No analysis provided"),
     issues |-> DictGet(obj, "issues", << >>),
     troubleshooting_steps |-> DictGet(obj, "troubleshooting_steps", << >>),
     suggested_fixes |-> DictGet(obj, "suggested_fixes", << >>),
     additional_info |-> DictGet(obj, "additional_info", ""),
     usage |-> resp.usage,
     raw |-> resp.content]

\* which open(..., 'w') of generate_outputs fails, if any
IOFailures == {"none", "log", "script"}

\* generate_outputs writing the fix script in a dry run too
generate_outputs_ignores_dry_run(obj, resp, dry, ioFails) ==
    LET fixes == DictGet(obj, "suggested_fixes", << >>)
        wantScript == fixes # << >>
    IN  IF ioFails = "log"
        THEN [exc |-> OutputError(<<"Failed to generate outputs: ",
                                    "Failed to create log file: ",
                                    "[Errno 13] Permission denied">>),
              log |-> NoLogFile, script |-> FALSE, ret |-> None,
              events |-> << >>]
        ELSE IF wantScript /\ ioFails = "script"
        THEN [exc |-> OutputError(<<"Failed to generate outputs: ",
                                    "Failed to create fix script: ",
                                    "[Errno 13] Permission denied">>),
              log |-> create_log_content(obj, resp), script |-> FALSE, ret |-> None,
              events |-> <<Write("log_file")>>]
        ELSE [exc |-> NoExc, log |-> create_log_content(obj, resp),
              script |-> wantScript, ret |-> "True",
              events |-> IF wantScript
                         THEN <<Write("log_file"), Write("fix_script")>>
                         ELSE <<Write("log_file")>>]

\* generate_outputs on a dict: the log file first, then the fix script if
\* there are suggested fixes and this is no dry run; any exception is
\* wrapped in OutputError
generate_outputs(obj, resp, dry, ioFails) ==
    LET fixes == DictGet(obj, "suggested_fixes", << >>)
        wantScript == fixes # << >> /\ ~dry
    IN  IF ioFails = "log"
        THEN [exc |-> OutputError(<<"Failed to generate outputs: ",
                                    "Failed to create log file: ",
                                    "[Errno 13] Permission denied">>),
              log |-> NoLogFile, script |-> FALSE, ret |-> None,
              events |-> << >>]
        ELSE IF wantScript /\ ioFails = "script"
        THEN [exc |-> OutputError(<<"Failed to generate outputs: ",
                                    "Failed to create fix script: ",
                                    "[Errno 13] Permission denied">>),
              log |-> create_log_content(obj, resp), script |-> FALSE, ret |-> None,
              events |-> <<Write("log_file")>>]
        ELSE [exc |-> NoExc, log |-> create_log_content(obj, resp),
              script |-> wantScript, ret |-> "True",
              events |-> IF wantScript
                         THEN <<Write("log_file"), Write("fix_script")>>
                         ELSE <<Write("log_file")>>]

\* _process_llm_response returning True after the display, without
\* generating outputs
process_llm_response_skips_outputs(resp, dry, ioFails) ==
    LET parsed == parse_response(resp.content)
        shown  == display_analysis(parsed.data)
    IN  IF parsed.exc # NoExc
        THEN [exc |-> parsed.exc, data |-> parsed.data, displayed |-> NoDisplay,
              log |-> NoLogFile, script |-> FALSE, ret |-> None,
              events |-> << >>]
        ELSE IF shown.exc # NoExc
        THEN [exc |-> shown.exc, data |-> parsed.data, displayed |-> NoDisplay,
              log |-> NoLogFile, script |-> FALSE, ret |-> None,
              events |-> <<Call("_display_analysis")>>]
        ELSE [exc |-> NoExc, data |-> parsed.data, displayed |-> shown.out,
              log |-> NoLogFile, script |-> FALSE, ret |-> "True",
              events |-> <<Call("_display_analysis")>>]

\* _process_llm_response: parse, display, generate outputs; the first
\* exception ends it
process_llm_response(resp, dry, ioFails) ==
    LET parsed == parse_response(resp.content)
        shown  == display_analysis(parsed.data)
        outs   == generate_outputs(parsed.data.val, resp, dry, ioFails)
    IN  IF parsed.exc # NoExc
        THEN [exc |-> parsed.exc, data |-> parsed.data, displayed |-> NoDisplay,
              log |-> NoLogFile, script |-> FALSE, ret |-> None,
              events |-> << >>]
        ELSE IF shown.exc # NoExc
        THEN [exc |-> shown.exc, data |-> parsed.data, displayed |-> NoDisplay,
              log |-> NoLogFile, script |-> FALSE, ret |-> None,
              events |-> <<Call("_display_analysis")>>]
        ELSE [exc |-> outs.exc, data |-> parsed.data, displayed |-> shown.out,
              log |-> outs.log, script |-> outs.script, ret |-> outs.ret,
              events |-> <<Call("_display_analysis"), Call("generate_outputs")>>
                           \o outs.events
                           \o IF outs.exc = NoExc
                              THEN <<Return("generate_outputs", outs.ret)>>
                              ELSE << >>]

\* ------------------------------------------------------------------------
\* The credential resolver as a state machine
\* ------------------------------------------------------------------------

\* no _store_credential of the key returned right before
NoPrev == [value |-> None, krThrew |-> FALSE]

NoRes == [op |-> "none", key |-> None, value |-> None, ret |-> None,
          raised |-> NoExc, tried |-> << >>, krThrew |-> FALSE,
          ioFailed |-> FALSE, wrote |-> FALSE,
          preFile |-> MissingFile, prev |-> NoPrev]

SourceValues == Secrets \cup {""}

\* Before the first operation custom_api_key may be held, empty or absent in
\* every source; custom_bearer_token is either absent or an entry of the file.
FileDicts ==
    {m \in Dicts(CredKeys, SourceValues) :
        "custom_bearer_token" \in DOMAIN m => m["custom_bearer_token"] = "s1"}

CredFiles ==
    {MissingFile}
      \cup {ObjectFile(m, mode) : m \in FileDicts, mode \in FileModes}
      \cup {OtherFile(kind, mode) : kind \in {"array", "corrupt"}, mode \in FileModes}

Environs ==
    {e \in Dicts({EnvVarName("custom_api_key"), DecoyEnvName}, SourceValues) :
        DecoyEnvName \in DOMAIN e => e[DecoyEnvName] = "s1"}

NoValidation == [done |-> FALSE, exc |-> NoExc]

NoData == JsonValue("none", None)

\* nothing processed, displayed or written yet
NoOutputs ==
    /\ analysisData = NoData
    /\ displayed = NoDisplay
    /\ logFile = NoLogFile
    /\ fixScript = FALSE
    /\ result = None

\* no invocation of cli.main is running
NoInvocation ==
    /\ pc = "idle"
    /\ config = DefaultConfig
    /\ prompt = None
    /\ credentials = EmptyDict
    /\ validateRes = NoValidation
    /\ client = NoClient
    /\ netLog = << >>
    /\ upstream = NoExc
    /\ exc = NoExc
    /\ response = NoResponse
    /\ exitCode = None
    /\ attempts = 0
    /\ reply = NoReply
    /\ dryRun = FALSE
    /\ NoOutputs
    /\ inputMode = "standalone"
    /\ events = << >>
    /\ coreExc = NoExc

InitCred ==
    /\ keyring \in Dicts({"custom_api_key"}, SourceValues)
    /\ environ \in Environs
    /\ credsFile \in CredFiles
    /\ credRes = NoRes
    /\ callers = NoCallers
    /\ configFile = NoConfigFile
    /\ passed = {}
    /\ NoInvocation

\* the value the call right before stored under the key, if that call was
\* a _store_credential of the key that returned, and whether the keyring
\* failed it
PrevStore(key) ==
    IF credRes.op = "store" /\ credRes.key = key /\ credRes.raised = NoExc
    THEN [value |-> credRes.value, krThrew |-> credRes.krThrew]
    ELSE NoPrev

GetCredential ==
    \E key \in CredKeys, krThrows \in BOOLEAN :
      LET r == get_credential(key, krThrows)
      IN  /\ credRes' = [NoRes EXCEPT !.op = "get", !.key = key, !.ret = r.ret,
                            !.raised = r.raised, !.tried = r.tried,
                            !.krThrew = krThrows,
                            !.preFile = credsFile,
                            !.prev = PrevStore(key)]
          /\ UNCHANGED <<keyring, environ, credsFile, callers, cfgVars>>
          /\ UNCHANGED llmVars

StoreCredential ==
    \E key \in CredKeys, value \in Secrets, krThrows \in BOOLEAN, ioFails \in BOOLEAN :
      LET r == store_credential(key, value, krThrows, ioFails)
      IN  /\ keyring' = r.kr
          /\ credsFile' = r.file
          /\ credRes' = [NoRes EXCEPT !.op = "store", !.key = key, !.value = value,
                            !.raised = r.raised, !.krThrew = krThrows,
                            !.ioFailed = ioFails, !.wrote = r.wrote,
                            !.preFile = credsFile]
          /\ UNCHANGED <<environ, callers, cfgVars>>
          /\ UNCHANGED llmVars

NextCred == GetCredential \/ StoreCredential

SpecCred == InitCred /\ [][NextCred]_vars

\* The credentials file as _store_credential leaves it: absent, or present
\* with mode 0600.
StoredFiles ==
    {MissingFile}
      \cup {ObjectFile(m, OwnerOnly) : m \in FileDicts}
      \cup {OtherFile(kind, OwnerOnly) : kind \in {"array", "corrupt"}}

\* Two callers enter _store_credential with different keys.
InitStore ==
    /\ keyring = EmptyDict
    /\ environ = EmptyDict
    /\ credsFile \in StoredFiles
    /\ credRes = NoRes
    /\ callers \in {[c \in Callers |-> EnteredCaller(c, v[c])] :
                        v \in [Callers -> Secrets]}
    /\ configFile = NoConfigFile
    /\ passed = {}
    /\ NoInvocation

NextStore ==
    \E c \in Callers :
      \/ StoreSetPassword(c)
      \/ StoreExists(c)
      \/ StoreLoad(c)
      \/ StoreUpdate(c)
      \/ StoreOpen(c)
      \/ StoreDump(c)
      \/ StoreChmod(c)

SpecStore == InitStore /\ [][NextStore]_vars

\* ------------------------------------------------------------------------
\* The configuration UI: ConfigManager.run_tui and what it calls
\* ------------------------------------------------------------------------

\* dict.update
DictUpdate(d, u) ==
    [k \in (DOMAIN d) \cup (DOMAIN u) |-> IF k \in DOMAIN u THEN u[k] ELSE d[k]]

\* default_config of _load_config
default_config ==
    [llm_provider |-> "openai", llm_model |-> "gpt-4", llm_base_url |-> "",
     llm_auth_type |-> "api_key", llm_timeout |-> DefaultTimeout,
     log_directory |-> "~/cmdrx_logs", verbose |-> FALSE,
     auto_fix_scripts |-> TRUE, command_timeout |-> DefaultTimeout]

\* the keys whose values are not strings
NonTextKeys == {"llm_timeout", "command_timeout", "verbose", "auto_fix_scripts"}

\* entries a config.json written by hand or by another tool may carry
\* besides the settings
ForeignKeys == {"api_key", "Auth_Token"}

\* k.lower(), as the pieces the key is made of
LowerPieces(k) ==
    CASE k = "llm_provider"     -> <<"llm", "_", "provider">>
      [] k = "llm_model"        -> <<"llm", "_", "model">>
      [] k = "llm_base_url"     -> <<"llm", "_", "base", "_", "url">>
      [] k = "llm_auth_type"    -> <<"llm", "_", "auth", "_", "type">>
      [] k = "llm_timeout"      -> <<"llm", "_", "timeout">>
      [] k = "log_directory"    -> <<"log", "_", "directory">>
      [] k = "verbose"          -> <<"verbose">>
      [] k = "auto_fix_scripts" -> <<"auto", "_", "fix", "_", "scripts">>
      [] k = "command_timeout"  -> <<"command", "_", "timeout">>
      [] k = "api_key"          -> <<"api", "_", "key">>
      [] k = "Auth_Token"       -> <<"auth", "_", "token">>

\* any(x in k.lower() for x in ['password', 'key', 'token'])
Sensitive(k) ==
    \E x \in {"password", "key", "token"} : Contains(LowerPieces(k), <<x>>)

\* _load_config: the defaults, overridden by every entry of the file
load_config(file) ==
    IF ~file.exists THEN default_config ELSE DictUpdate(default_config, file.map)

\* safe_config of _save_config
safe_config(cfg) == [k \in {x \in DOMAIN cfg : ~Sensitive(x)} |-> cfg[k]]

\* _save_config: ioFails stands for open(config_file, 'w') raising
save_config(cfg, ioFails) ==
    IF ioFails
    THEN [file |-> configFile,
          raised |-> Exc("ConfigurationError",
                         <<"Failed to save configuration: ", "Permission denied">>)]
    ELSE [file |-> ConfigFileOf(safe_config(cfg)), raised |-> NoExc]

\* provider['base_url'] of PREDEFINED_PROVIDERS
PredefinedBaseUrl(provider_id) ==
    CASE provider_id = "openai"    -> "https://api.openai.com/v1"
      [] provider_id = "anthropic" -> "https://api.anthropic.com/v1"
      [] provider_id = "grok"      -> "https://api.x.ai/v1"

\* what the user types at a password prompt: nothing, or a secret
KeyAnswers == {"", "s1"}

\* what the user types at the model prompt
ModelAnswers == {"llama2"}

\* the providers the user picks from provider_choices
ProviderChoices == {"openai", "custom"}

\* how _store_credential goes: the keyring takes the value, the file takes
\* it, or neither does
StoreOutcomes ==
    {[krThrows |-> FALSE, ioFails |-> FALSE],
     [krThrows |-> TRUE, ioFails |-> FALSE],
     [krThrows |-> TRUE, ioFails |-> TRUE]}

\* what the user types at a timeout prompt
TimeoutAnswers == {"30", "soon"}

\* int(timeout)
IntOf(t) ==
    IF t = "30"
    THEN [exc |-> NoExc, val |-> DefaultTimeout]
    ELSE [exc |-> Exc("ValueError", <<"invalid literal for int() with base 10: '", t, "'">>),
          val |-> 0]

\* "if credential: self._store_credential(cred_key, credential)"
StoreIfGiven(key, value, krThrows, ioFails) ==
    IF value = ""
    THEN [kr |-> keyring, file |-> credsFile, raised |-> NoExc, passed |-> {}]
    ELSE LET st == store_credential(key, value, krThrows, ioFails)
         IN  [kr |-> st.kr, file |-> st.file, raised |-> st.raised, passed |-> {value}]

\* _configure_predefined_provider: the key goes to _store_credential, the
\* four provider settings go to _config
configure_predefined_provider(cfg, provider_id, api_key, model, krThrows, ioFails) ==
    LET st == StoreIfGiven(ApiKeyName(provider_id), api_key, krThrows, ioFails)
    IN  [kr |-> st.kr, file |-> st.file, raised |-> st.raised, passed |-> st.passed,
         config |-> IF st.raised # NoExc THEN cfg
                    ELSE DictUpdate(cfg,
                           [llm_provider |-> provider_id, llm_model |-> model,
                            llm_base_url |-> PredefinedBaseUrl(provider_id),
                            llm_auth_type |-> "api_key"])]

\* _configure_custom_provider
configure_custom_provider(cfg, base_url, model, auth_type, credential, timeout, krThrows, ioFails) ==
    LET cred_key == IF auth_type = "api_key" THEN "custom_api_key"
                    ELSE "custom_bearer_token"
        st == IF auth_type = "none"
              THEN StoreIfGiven(cred_key, "", krThrows, ioFails)
              ELSE StoreIfGiven(cred_key, credential, krThrows, ioFails)
        t  == IntOf(timeout)
    IN  [kr |-> st.kr, file |-> st.file, passed |-> st.passed,
         raised |-> IF st.raised # NoExc THEN st.raised ELSE t.exc,
         config |-> IF st.raised # NoExc \/ t.exc # NoExc THEN cfg
                    ELSE DictUpdate(cfg,
                           [llm_provider |-> "custom", llm_base_url |-> base_url,
                            llm_model |-> model, llm_auth_type |-> auth_type,
                            llm_timeout |-> t.val])]

\* _configure_settings, up to its _save_config
configure_settings(cfg, log_dir, verbose, auto_fix_scripts, command_timeout) ==
    LET t == IntOf(command_timeout)
    IN  [raised |-> t.exc,
         config |-> IF t.exc # NoExc THEN cfg
                    ELSE DictUpdate(cfg,
                           [log_directory |-> log_dir, verbose |-> verbose,
                            auto_fix_scripts |-> auto_fix_scripts,
                            command_timeout |-> t.val])]

\* what the configuration UI leaves alone
tuiUnchanged ==
    UNCHANGED <<environ, credRes, callers, prompt, credentials, validateRes,
                client, netLog, upstream, response, attempts, reply, outVars,
                runVars>>

\* the end of a menu choice: run_tui loops, or the exception leaves it and
\* main exits with status 1
MenuChoiceEnds(raised) ==
    /\ exc' = raised
    /\ pc' = IF raised = NoExc THEN "config_menu" ELSE "exit"
    /\ exitCode' = IF raised = NoExc THEN None ELSE "1"

\* the rest of _configure_llm_provider once the provider's questions are
\* answered: _save_config, unless an exception is already on its way
ProviderConfigured(r, saveFails) ==
    LET sv == save_config(r.config, saveFails)
    IN  /\ pc = "config_menu"
        /\ keyring' = r.kr
        /\ credsFile' = r.file
        /\ passed' = passed \cup r.passed
        /\ config' = r.config
        /\ configFile' = IF r.raised = NoExc THEN sv.file ELSE configFile
        /\ MenuChoiceEnds(IF r.raised = NoExc THEN sv.raised ELSE r.raised)
        /\ tuiUnchanged

\* menu choice 1, _configure_llm_provider, with a predefined provider or
\* with "custom"
ConfigureLLMProvider ==
    \E credential \in KeyAnswers, model \in ModelAnswers,
       storing \in StoreOutcomes, saveFails \in BOOLEAN :
      \/ \E provider_id \in ProviderChoices \ {"custom"} :
           ProviderConfigured(
             configure_predefined_provider(config, provider_id, credential, model,
                                           storing.krThrows, storing.ioFails),
             saveFails)
      \/ \E auth_type \in AuthTypes, timeout \in TimeoutAnswers :
           ProviderConfigured(
             configure_custom_provider(config, "http://localhost:11434/v1", model,
                                       auth_type, credential, timeout,
                                       storing.krThrows, storing.ioFails),
             saveFails)

\* menu choice 2, _configure_settings
ConfigureSettings ==
    \E verbose \in BOOLEAN, auto_fix_scripts \in BOOLEAN,
       command_timeout \in TimeoutAnswers, saveFails \in BOOLEAN :
      LET r  == configure_settings(config, "/var/log/cmdrx", verbose,
                                   auto_fix_scripts, command_timeout)
          sv == save_config(r.config, saveFails)
      IN  /\ pc = "config_menu"
          /\ config' = r.config
          /\ configFile' = IF r.raised = NoExc THEN sv.file ELSE configFile
          /\ MenuChoiceEnds(IF r.raised = NoExc THEN sv.raised ELSE r.raised)
          /\ UNCHANGED <<keyring, credsFile, passed>>
          /\ tuiUnchanged

\* menu choice q: run_tui returns
ConfigQuit ==
    /\ pc = "config_menu"
    /\ pc' = "exit"
    /\ exitCode' = "0"
    /\ UNCHANGED <<keyring, credsFile, cfgVars, config, exc>>
    /\ tuiUnchanged

\* cmdrx --config is run again: ConfigManager.__init__ loads config.json
ConfigStart ==
    /\ pc = "exit"
    /\ pc' = "config_menu"
    /\ config' = load_config(configFile)
    /\ exc' = NoExc
    /\ exitCode' = None
    /\ UNCHANGED <<keyring, credsFile, cfgVars>>
    /\ tuiUnchanged

\* config.json before the first run: absent, or carrying one foreign entry
ConfigFiles ==
    {NoConfigFile}
      \cup {ConfigFileOf([k \in {f} |-> "s1"]) : f \in ForeignKeys}

\* cmdrx --config has constructed its ConfigManager
InitConfig ==
    /\ keyring = EmptyDict
    /\ environ = EmptyDict
    /\ credsFile = MissingFile
    /\ credRes = NoRes
    /\ callers = NoCallers
    /\ configFile \in ConfigFiles
    /\ passed = {}
    /\ pc = "config_menu"
    /\ config = load_config(configFile)
    /\ prompt = None
    /\ credentials = EmptyDict
    /\ validateRes = NoValidation
    /\ client = NoClient
    /\ netLog = << >>
    /\ upstream = NoExc
    /\ exc = NoExc
    /\ response = NoResponse
    /\ exitCode = None
    /\ attempts = 0
    /\ reply = NoReply
    /\ dryRun = FALSE
    /\ NoOutputs
    /\ inputMode = "standalone"
    /\ events = << >>
    /\ coreExc = NoExc

NextConfig == ConfigureLLMProvider \/ ConfigureSettings \/ ConfigQuit \/ ConfigStart

SpecConfig == InitConfig /\ [][NextConfig]_vars

\* ------------------------------------------------------------------------
\* One invocation of cli.main: CmdRxCore(), LLMProvider(), analyze
\* ------------------------------------------------------------------------

\* what the _get_credential call of get_llm_credentials did, NoRes when
\* the configuration selects no lookup
LookupRecord(cfg, krThrows) ==
    LET lookup == CredentialLookup(cfg)
        r == get_credential(lookup.key, krThrows)
    IN  IF lookup = NoLookup
        THEN NoRes
        ELSE [NoRes EXCEPT !.op = "get", !.key = lookup.key, !.ret = r.ret,
                 !.raised = r.raised, !.tried = r.tried, !.krThrew = krThrows,
                 !.preFile = credsFile]

\* the secret the keyring holds under a key: each key has its own
KeySecret(key) == "secret of " \o key

\* The invocation starts in main with the configuration _load_config
\* returned; the provider's credential, when stored, is in the keyring.
Init ==
    /\ keyring \in {[k \in K |-> KeySecret(k)] : K \in SUBSET LLMKeys}
    /\ environ = EmptyDict
    /\ credsFile = MissingFile
    /\ credRes = NoRes
    /\ callers = NoCallers
    /\ configFile = NoConfigFile
    /\ passed = {}
    /\ pc = "provider_init"
    /\ config \in Configs
    /\ inputMode \in Modes
    /\ prompt = PromptOf(inputMode)
    /\ events = << >>
    /\ coreExc = NoExc
    /\ credentials = EmptyDict
    /\ validateRes = NoValidation
    /\ client = NoClient
    /\ netLog = << >>
    /\ upstream = NoExc
    /\ exc = NoExc
    /\ response = NoResponse
    /\ exitCode = None
    /\ attempts = 0
    /\ reply = NoReply
    /\ dryRun \in BOOLEAN
    /\ NoOutputs

\* LLMProvider.__init__, up to the call of _validate_config
ProviderInit ==
    /\ pc = "provider_init"
    /\ \E krThrows \in BOOLEAN :
          /\ credentials' = get_llm_credentials(config, krThrows)
          /\ credRes' = LookupRecord(config, krThrows)
    /\ pc' = "validate"
    /\ UNCHANGED <<config, prompt, validateRes, client, netLog, upstream, exc,
                   response, exitCode>>
    /\ UNCHANGED <<keyring, environ, credsFile, callers, cfgVars>>
    /\ UNCHANGED <<attempts, reply>>
    /\ UNCHANGED outVars
    /\ UNCHANGED runVars

\* ValidateConfig whose exception does not stop __init__
ValidateConfig_not_fatal ==
    /\ pc = "validate"
    /\ LET e == validate_config(config, credentials)
       IN  /\ validateRes' = [done |-> TRUE, exc |-> e]
           /\ exc' = e
           /\ pc' = "create_client"
    /\ UNCHANGED <<config, prompt, credentials, client, netLog, upstream,
                   response, exitCode>>
    /\ UNCHANGED credVars
    /\ UNCHANGED <<attempts, reply>>
    /\ UNCHANGED outVars
    /\ UNCHANGED runVars

\* self._validate_config()
ValidateConfig ==
    /\ pc = "validate"
    /\ LET e == validate_config(config, credentials)
       IN  /\ validateRes' = [done |-> TRUE, exc |-> e]
           /\ exc' = e
           /\ pc' = IF e = NoExc THEN "create_client" ELSE "provider_raised"
    /\ UNCHANGED <<config, prompt, credentials, client, netLog, upstream,
                   response, exitCode>>
    /\ UNCHANGED credVars
    /\ UNCHANGED <<attempts, reply>>
    /\ UNCHANGED outVars
    /\ UNCHANGED runVars

\* self.client = self._create_client()
CreateClient ==
    /\ pc = "create_client"
    /\ LET r == create_client(config, credentials)
       IN  /\ client' = r.client
           /\ exc' = r.exc
           /\ pc' = IF r.exc = NoExc THEN "analyze" ELSE "provider_raised"
    /\ UNCHANGED <<config, prompt, credentials, validateRes, netLog, upstream,
                   response, exitCode>>
    /\ UNCHANGED credVars
    /\ UNCHANGED <<attempts, reply>>
    /\ UNCHANGED outVars
    /\ UNCHANGED runVars

\* CmdRxCore.__init__: except Exception as e around LLMProvider(...)
core_init_except(e) == ConfigurationError(<<"Failed to initialize LLM provider: ">> \o e.msg)

CoreInitRaise ==
    /\ pc = "provider_raised"
    /\ exc' = core_init_except(exc)
    /\ pc' = "main_except"
    /\ UNCHANGED <<config, prompt, credentials, validateRes, client, netLog,
                   upstream, response, exitCode>>
    /\ UNCHANGED credVars
    /\ UNCHANGED <<attempts, reply>>
    /\ UNCHANGED outVars
    /\ coreExc' = core_init_except(exc)
    /\ UNCHANGED <<inputMode, events>>

\* analyze, provider in ['openai', 'grok', 'custom']: the request is sent
AnalyzeOpenAICompatible ==
    /\ pc = "analyze"
    /\ ProtocolOf(config.llm_provider) = "chat.completions"
    /\ netLog' = Append(netLog, OpenAIRequest(client, config, prompt))
    /\ pc' = "await_chat_completions"
    /\ attempts' = 1
    /\ UNCHANGED <<config, prompt, credentials, validateRes, client, upstream,
                   exc, response, exitCode>>
    /\ UNCHANGED credVars
    /\ UNCHANGED reply
    /\ UNCHANGED outVars
    /\ events' = Append(events, Call("analyze"))
    /\ UNCHANGED <<inputMode, coreExc>>

\* analyze, provider == 'anthropic': import anthropic, then the key check,
\* then the request is sent
AnalyzeAnthropic ==
    /\ pc = "analyze"
    /\ ProtocolOf(config.llm_provider) = "messages"
    /\ \E installed \in BOOLEAN :
          LET first == IF ~installed
                       THEN Exc("ImportError", <<"No module named 'anthropic'">>)
                       ELSE IF ~Truthy(DictGet(credentials, "api_key", None))
                       THEN ConfigurationError(<<"Anthropic API key not configured">>)
                       ELSE NoExc
          IN  IF first # NoExc
              THEN /\ upstream' = first
                   /\ exc' = analyze_except(first)
                   /\ pc' = "analyze_raised"
                   /\ UNCHANGED <<netLog, attempts>>
              ELSE /\ netLog' = Append(netLog, AnthropicRequest(config, credentials, prompt))
                   /\ pc' = "await_messages"
                   /\ attempts' = 1
                   /\ UNCHANGED <<upstream, exc>>
    /\ UNCHANGED <<config, prompt, credentials, validateRes, client, response,
                   exitCode>>
    /\ UNCHANGED credVars
    /\ UNCHANGED reply
    /\ UNCHANGED outVars
    /\ events' = Append(events, Call("analyze"))
    /\ UNCHANGED <<inputMode, coreExc>>

\* analyze, any other provider
AnalyzeUnsupported ==
    /\ pc = "analyze"
    /\ ProtocolOf(config.llm_provider) = "unsupported"
    /\ LET first == LLMError(<<"Unsupported provider: ", config.llm_provider>>)
       IN  /\ upstream' = first
           /\ exc' = analyze_except(first)
    /\ pc' = "analyze_raised"
    /\ UNCHANGED <<config, prompt, credentials, validateRes, client, netLog,
                   response, exitCode>>
    /\ UNCHANGED credVars
    /\ UNCHANGED <<attempts, reply>>
    /\ UNCHANGED outVars
    /\ events' = Append(events, Call("analyze"))
    /\ UNCHANGED <<inputMode, coreExc>>

\* the rest of analyze once the call has an outcome
Finish(r) ==
    IF r.exc # NoExc
    THEN /\ upstream' = r.first
         /\ exc' = analyze_except(r.exc)
         /\ pc' = "analyze_raised"
         /\ UNCHANGED response
    ELSE /\ response' = [r.resp EXCEPT !.provider = config.llm_provider]
         /\ pc' = "analyze_returned"
         /\ UNCHANGED <<upstream, exc>>

\* retries the SDK client of the call in flight may make: self.client for
\* chat.completions, the client _analyze_anthropic builds for messages
MaxRetriesInFlight ==
    IF pc = "await_messages" THEN SDKDefaultMaxRetries ELSE client.max_retries

\* the SDK call gives up on a retryable failure only once its retries are
\* used up; any other outcome ends the call at once
CallEndsWith(outcome) ==
    outcome.kind = "raise" /\ Retryable(outcome.exc)
        => attempts >= 1 + MaxRetriesInFlight

\* inside chat.completions.create / messages.create: the attempt failed
\* with a retryable error and the SDK client sends the request again
SDKRetry ==
    /\ pc \in {"await_chat_completions", "await_messages"}
    /\ attempts < 1 + MaxRetriesInFlight
    /\ \E e \in TransportErrors : Retryable(e)
    /\ attempts' = attempts + 1
    /\ UNCHANGED <<pc, config, prompt, credentials, validateRes, client, netLog,
                   upstream, exc, response, exitCode, reply>>
    /\ UNCHANGED credVars
    /\ UNCHANGED outVars
    /\ UNCHANGED runVars

ReplyOpenAICompatible ==
    /\ pc = "await_chat_completions"
    /\ \E outcome \in OpenAIOutcomes :
          /\ CallEndsWith(outcome)
          /\ reply' = outcome
          /\ Finish(analyze_openai_compatible(outcome, config.llm_model))
    /\ UNCHANGED <<config, prompt, credentials, validateRes, client, netLog, exitCode>>
    /\ UNCHANGED credVars
    /\ UNCHANGED attempts
    /\ UNCHANGED outVars
    /\ UNCHANGED runVars

ReplyAnthropic ==
    /\ pc = "await_messages"
    /\ \E outcome \in AnthropicOutcomes :
          /\ CallEndsWith(outcome)
          /\ reply' = outcome
          /\ Finish(analyze_anthropic(outcome, config.llm_model))
    /\ UNCHANGED <<config, prompt, credentials, validateRes, client, netLog, exitCode>>
    /\ UNCHANGED credVars
    /\ UNCHANGED attempts
    /\ UNCHANGED outVars
    /\ UNCHANGED runVars

\* analyze_output_except raising the base class instead of LLMError
analyze_output_except_cmdrx_error(e) ==
    Exc("CmdRxError", <<"LLM analysis failed: ">> \o e.msg)

\* CmdRxCore.analyze_output: except Exception as e around analyze(prompt)
analyze_output_except(e) == LLMError(<<"LLM analysis failed: ">> \o e.msg)

AnalyzeOutputRaise ==
    /\ pc = "analyze_raised"
    /\ exc' = analyze_output_except(exc)
    /\ pc' = "runner_except"
    /\ UNCHANGED <<config, prompt, credentials, validateRes, client, netLog,
                   upstream, response, exitCode>>
    /\ UNCHANGED credVars
    /\ UNCHANGED <<attempts, reply>>
    /\ UNCHANGED outVars
    /\ coreExc' = analyze_output_except(exc)
    /\ UNCHANGED <<inputMode, events>>

\* return self._process_llm_response(analysis_context, llm_response); an
\* exception it raises leaves analyze_output as it is
ProcessLLMResponse ==
    /\ pc = "analyze_returned"
    /\ \E ioFails \in IOFailures :
          LET r == process_llm_response(response, dryRun, ioFails)
          IN  /\ analysisData' = r.data
              /\ displayed' = r.displayed
              /\ logFile' = r.log
              /\ fixScript' = r.script
              /\ result' = r.ret
              /\ exc' = r.exc
              /\ coreExc' = r.exc
              /\ events' = events \o r.events
              /\ pc' = IF r.exc = NoExc THEN "main_result" ELSE "runner_except"
    /\ UNCHANGED <<config, prompt, credentials, validateRes, client, netLog,
                   upstream, response, exitCode, attempts, reply, dryRun, inputMode>>
    /\ UNCHANGED credVars

\* what _execute_command_piped raises for an exception raised under it
piped_except(e) == Exc("CmdRxError", <<"Failed to read piped input: ">> \o e.msg)

\* the except clauses of the command runner main selected, for an
\* exception that left core.analyze_output: _execute_command_standalone
\* catches subprocess.TimeoutExpired and CalledProcessError only, so the
\* exception passes; _execute_command_piped catches every Exception
execute_command_except(m, e) == IF m = "piped" THEN piped_except(e) ELSE e

\* the exception leaves the command runner for main
ExecuteCommandExcept ==
    /\ pc = "runner_except"
    /\ exc' = execute_command_except(inputMode, exc)
    /\ pc' = "main_except"
    /\ UNCHANGED <<config, prompt, credentials, validateRes, client, netLog,
                   upstream, response, exitCode>>
    /\ UNCHANGED credVars
    /\ UNCHANGED <<attempts, reply>>
    /\ UNCHANGED outVars
    /\ UNCHANGED runVars

\* the message main prints after a truthy result
CompleteMessage == "Analysis complete. Check the output above and generated files."

\* the exception classes derived from CmdRxError
CmdRxErrors ==
    {"CmdRxError", "ConfigurationError", "LLMError", "InputError", "OutputError",
     "SecurityError"}

\* the first except clause of main that matches, by what it prints before
\* the exception's message
ExceptLabel(e) ==
    IF e.type = "ConfigurationError" THEN "Configuration error: "
    ELSE IF e.type = "LLMError" THEN "LLM service error: "
    ELSE IF e.type \in CmdRxErrors THEN "Error: "
    ELSE "Unexpected error: "

\* cli.main: if result: report completion; main returns and the process
\* ends with status 0
MainReturn ==
    /\ pc = "main_result"
    /\ exitCode' = "0"
    /\ pc' = "exit"
    /\ UNCHANGED <<config, prompt, credentials, validateRes, client, netLog,
                   upstream, exc, response, attempts, reply>>
    /\ UNCHANGED credVars
    /\ UNCHANGED outVars
    /\ events' = IF result = "True"
                  THEN Append(events, Printed(<<CompleteMessage>>))
                  ELSE events
    /\ UNCHANGED <<inputMode, coreExc>>

\* MainExcept ending the process with status 0
MainExcept_exits_zero ==
    /\ pc = "main_except"
    /\ exc # NoExc
    /\ exitCode' = "0"
    /\ pc' = "exit"
    /\ UNCHANGED <<config, prompt, credentials, validateRes, client, netLog,
                   upstream, exc, response>>
    /\ UNCHANGED credVars
    /\ UNCHANGED <<attempts, reply>>
    /\ UNCHANGED outVars
    /\ events' = Append(events, Printed(<<ExceptLabel(exc)>> \o exc.msg))
    /\ UNCHANGED <<inputMode, coreExc>>

\* cli.main: every except clause reports the exception and calls sys.exit(1)
MainExcept ==
    /\ pc = "main_except"
    /\ exc # NoExc
    /\ exitCode' = "1"
    /\ pc' = "exit"
    /\ UNCHANGED <<config, prompt, credentials, validateRes, client, netLog,
                   upstream, exc, response>>
    /\ UNCHANGED credVars
    /\ UNCHANGED <<attempts, reply>>
    /\ UNCHANGED outVars
    /\ events' = Append(events, Printed(<<ExceptLabel(exc)>> \o exc.msg))
    /\ UNCHANGED <<inputMode, coreExc>>

Next ==
    \/ ProviderInit
    \/ ValidateConfig
    \/ CreateClient
    \/ CoreInitRaise
    \/ AnalyzeOpenAICompatible
    \/ AnalyzeAnthropic
    \/ AnalyzeUnsupported
    \/ SDKRetry
    \/ ReplyOpenAICompatible
    \/ ReplyAnthropic
    \/ AnalyzeOutputRaise
    \/ ProcessLLMResponse
    \/ ExecuteCommandExcept
    \/ MainReturn
    \/ MainExcept

Spec == Init /\ [][Next]_vars

\* ------------------------------------------------------------------------
\* _process_llm_response on the replies an analysis can be
\* ------------------------------------------------------------------------

\* contents of an LLMResponse: JSON objects with any of the six fields,
\* JSON of another shape, text that is not JSON
ContentTexts == DOMAIN ObjectOfText \cup DOMAIN OtherJson \cup MalformedTexts

\* analyze has just returned the LLMResponse of an openai reply to main's
\* CmdRxCore; the reply's first choice has any of the contents
InitParse ==
    /\ keyring = [k \in {"openai_api_key"} |-> KeySecret(k)]
    /\ environ = EmptyDict
    /\ credsFile = MissingFile
    /\ credRes = LookupRecord(DefaultConfig, FALSE)
    /\ callers = NoCallers
    /\ configFile = NoConfigFile
    /\ passed = {}
    /\ pc = "analyze_returned"
    /\ config = DefaultConfig
    /\ inputMode \in Modes
    /\ prompt = PromptOf(inputMode)
    /\ events = <<Call("analyze")>>
    /\ coreExc = NoExc
    /\ credentials = get_llm_credentials(DefaultConfig, FALSE)
    /\ validateRes = [done |-> TRUE, exc |-> NoExc]
    /\ client = create_client(config, credentials).client
    /\ netLog = <<OpenAIRequest(client, config, prompt)>>
    /\ upstream = NoExc
    /\ exc = NoExc
    /\ exitCode = None
    /\ attempts = 1
    /\ \E content \in ContentTexts \cup {None},
          usage \in {NoUsage, Usage([prompt_tokens |-> 3, completion_tokens |-> 5,
                                     total_tokens |-> 8])} :
          /\ reply = Reply(<<content>>, usage)
          /\ response = [analyze_openai_compatible(reply, config.llm_model).resp
                            EXCEPT !.provider = config.llm_provider]
    /\ dryRun \in BOOLEAN
    /\ NoOutputs

NextParse ==
    \/ ProcessLLMResponse
    \/ ExecuteCommandExcept
    \/ MainReturn
    \/ MainExcept

SpecParse == InitParse /\ [][NextParse]_vars

\* ------------------------------------------------------------------------
\* Properties of the credential resolver
\* ------------------------------------------------------------------------

\* what each source holds for the key of the last operation, read off the
\* state directly
KeyringHolds == IF credRes.krThrew THEN None ELSE DictGet(keyring, credRes.key, None)

EnvHolds ==
    LET name == IF credRes.key = "custom_api_key"
                THEN "CMDRX_CUSTOM_API_KEY"
                ELSE "CMDRX_CUSTOM_BEARER_TOKEN"
    IN  IF name \in DOMAIN environ THEN environ[name] ELSE None

FileHolds ==
    IF /\ credsFile.exists
       /\ OwnerCanRead(credsFile.mode)
       /\ credsFile.kind = "object"
       /\ credRes.key \in DOMAIN credsFile.map
    THEN credsFile.map[credRes.key]
    ELSE None

AllSources == <<"keyring", "env", "file">>

\* C1: _get_credential returns the value of the first of keyring, environment
\* variable CMDRX_<KEY>, credentials.json that holds a non-empty value: a
\* non-empty keyring value wins over the other two, a non-empty environment
\* value wins over the file.
C1_ResolutionOrder ==
    credRes.op = "get" =>
        /\ Truthy(KeyringHolds) => credRes.ret = KeyringHolds
        /\ ~Truthy(KeyringHolds) /\ Truthy(EnvHolds) => credRes.ret = EnvHolds
        /\ ~Truthy(KeyringHolds) /\ ~Truthy(EnvHolds) /\ Truthy(FileHolds)
              => credRes.ret = FileHolds
        /\ \A i \in DOMAIN credRes.tried : credRes.tried[i] = AllSources[i]

\* all three sources hold a non-empty value and the keyring's differs from
\* the other two
C1_Witness ==
    /\ credRes.op = "get"
    /\ Truthy(KeyringHolds) /\ Truthy(EnvHolds) /\ Truthy(FileHolds)
    /\ KeyringHolds # EnvHolds /\ KeyringHolds # FileHolds
    /\ credRes.ret = KeyringHolds

\* C2: _get_credential never raises; a failing source (keyring throws,
\* variable unset, file missing, unreadable, corrupt or not a mapping) lets
\* the chain proceed, and None is returned only after all three sources were
\* tried and none held a non-empty value.
C2_NeverRaises ==
    credRes.op = "get" =>
        /\ credRes.raised = NoExc
        /\ credRes.ret = None =>
              /\ credRes.tried = AllSources
              /\ ~Truthy(KeyringHolds) /\ ~Truthy(EnvHolds) /\ ~Truthy(FileHolds)
        /\ credRes.krThrew =>
              /\ Len(credRes.tried) >= 2 /\ credRes.tried[2] = "env"
              /\ Truthy(EnvHolds) => credRes.ret = EnvHolds
              /\ ~Truthy(EnvHolds) =>
                    /\ credRes.tried = AllSources
                    /\ Truthy(FileHolds) => credRes.ret = FileHolds

\* the keyring throws and the file then supplies the value
C2_Witness ==
    /\ credRes.op = "get"
    /\ credRes.krThrew
    /\ ~Truthy(EnvHolds)
    /\ Truthy(FileHolds)
    /\ credRes.ret = FileHolds

\* the keyring throws, the variable is unset and the file cannot be used
C2_WitnessNone ==
    /\ credRes.op = "get"
    /\ credRes.krThrew
    /\ EnvHolds = None
    /\ credsFile.exists /\ (credsFile.kind = "corrupt" \/ ~OwnerCanRead(credsFile.mode))
    /\ credRes.ret = None

\* C3: when the keyring write raises and _store_credential returns, the file
\* maps k to v, keeps every other entry it had before the call and has mode
\* 0600; when the keyring write succeeds the file is not touched.
C3_FallbackMerges ==
    credRes.op = "store" /\ credRes.raised = NoExc =>
        IF credRes.krThrew
        THEN /\ credsFile.exists /\ credsFile.kind = "object"
             /\ DictGet(credsFile.map, credRes.key, None) = credRes.value
             /\ \A k \in DOMAIN credRes.preFile.map \ {credRes.key} :
                   /\ k \in DOMAIN credsFile.map
                   /\ credsFile.map[k] = credRes.preFile.map[k]
             /\ credsFile.mode = OwnerOnly
        ELSE credsFile = credRes.preFile

\* C4: _store_credential either succeeds or raises SecurityError, and raises
\* SecurityError only when both the keyring write and the file write failed.
C4_OnlySecurityError ==
    credRes.op = "store" =>
        /\ credRes.raised.type \in {"none", "SecurityError"}
        /\ credRes.raised.type = "SecurityError" => credRes.krThrew /\ ~credRes.wrote

\* ------------------------------------------------------------------------
\* Properties of validation and dispatch
\* ------------------------------------------------------------------------

ValidationRaised == validateRes.done /\ validateRes.exc # NoExc

RaisedConfigurationError == validateRes.done /\ validateRes.exc.type = "ConfigurationError"

\* C5: _validate_config raises ConfigurationError whenever llm_provider or
\* llm_model is empty, whatever the provider and the credentials present.
C5_EmptyProviderOrModel ==
    validateRes.done /\ (config.llm_provider \in {"", None} \/ config.llm_model = "")
        => RaisedConfigurationError

\* every known provider with its credential resolved and an empty model
C5_Witness ==
    /\ RaisedConfigurationError
    /\ config.llm_provider \in {"openai", "anthropic", "grok", "custom"}
    /\ config.llm_model = ""
    /\ DOMAIN credentials # {}

\* C6: _validate_config raises ConfigurationError for openai, anthropic and
\* grok without an api_key credential, and for custom with an empty base URL
\* or with an auth scheme whose credential kind is not in the resolved set.
C6_MissingCredentialOrUrl ==
    validateRes.done =>
        /\ config.llm_provider \in {"openai", "anthropic", "grok"}
              /\ "api_key" \notin DOMAIN credentials => RaisedConfigurationError
        /\ config.llm_provider = "custom" /\ config.llm_base_url = ""
              => RaisedConfigurationError
        /\ config.llm_provider = "custom" /\ config.llm_auth_type = "api_key"
              /\ "api_key" \notin DOMAIN credentials => RaisedConfigurationError
        /\ config.llm_provider = "custom" /\ config.llm_auth_type = "bearer_token"
              /\ "bearer_token" \notin DOMAIN credentials => RaisedConfigurationError

\* custom provider, empty base URL, auth scheme none, model given
C6_Witness ==
    /\ RaisedConfigurationError
    /\ config.llm_provider = "custom"
    /\ config.llm_base_url = ""
    /\ config.llm_auth_type = "none"
    /\ config.llm_model # ""

\* C7: once _validate_config has raised, no client exists, CmdRxCore's
\* construction fails with ConfigurationError and no request is ever sent.
C7_ValidationBlocksNetwork ==
    ValidationRaised =>
        /\ client = NoClient
        /\ netLog = << >>
        /\ pc \in {"provider_raised", "main_except", "exit"}
        /\ pc \in {"main_except", "exit"} => exc.type = "ConfigurationError"
        /\ response = NoResponse

\* the invocation has ended after a failed validation
C7_Witness ==
    /\ ValidationRaised
    /\ pc = "exit"
    /\ exitCode = "1"
    /\ exc.type = "ConfigurationError"


C9_UnsupportedFailsFast ==
    config.llm_provider \notin {"openai", "grok", "custom", "anthropic"} =>
        /\ netLog = << >>
        /\ pc \notin {"await_chat_completions", "await_messages", "analyze_returned"}
        /\ pc = "analyze_raised" => exc.type = "LLMError"

\* analyze was called for an unknown provider
C9_Witness ==
    /\ pc = "analyze_raised"
    /\ config.llm_provider = "gemini"
    /\ client # NoClient
    /\ netLog = << >>

\* C10: an analyze call sends one request, on the wire protocol of the
\* provider's family: openai, grok and custom the chat completion (a system
\* message, then the user message with the prompt), anthropic the messages
\* call (separate system field, one user message); both with temperature 0.1
\* and max_tokens 2000.
C10_OneProtocolPerFamily ==
    /\ Len(netLog) <= 1
    /\ pc \in {"await_chat_completions", "await_messages", "analyze_returned"}
          => Len(netLog) = 1
    /\ \A i \in DOMAIN netLog :
          LET r == netLog[i]
          IN  /\ r.temperature = <<1, 10>>
              /\ r.max_tokens = 2000
              /\ IF config.llm_provider \in {"openai", "grok", "custom"}
                 THEN /\ r.protocol = "chat.completions"
                      /\ r.system = None
                      /\ r.messages = <<[role |-> "system", content |-> SystemPrompt],
                                        [role |-> "user", content |-> prompt]>>
                 ELSE /\ config.llm_provider = "anthropic"
                      /\ r.protocol = "messages"
                      /\ r.system = SystemPrompt
                      /\ r.messages = <<[role |-> "user", content |-> prompt]>>

\* grok answered over the chat completion
C10_Witness ==
    /\ pc = "analyze_returned"
    /\ config.llm_provider = "grok"
    /\ Len(netLog) = 1 /\ netLog[1].protocol = "chat.completions"

\* anthropic is awaiting the reply to its messages call
C10_WitnessAnthropic ==
    /\ pc = "await_messages"
    /\ config.llm_provider = "anthropic"
    /\ Len(netLog) = 1 /\ netLog[1].protocol = "messages"

\* ------------------------------------------------------------------------
\* Properties of the reply handling
\* ------------------------------------------------------------------------

\* C11: no retries are performed: one call of analyze makes at most one
\* network attempt on either wire protocol, and a failed attempt is
\* reported without a second attempt.
C11_NoRetries == attempts <= 1

\* analyze returned an LLMResponse (its provider field is set on return)
Returned == response.provider # None

\* the SDK call of this invocation ended with a reply, not an exception
Replied == reply.kind = "reply"

\* C12: the content of every LLMResponse analyze returns is a string,
\* never None, whatever the upstream reply was.
C12_ContentNeverNull == Returned => response.content # None

\* C17: on both wire protocols a reply without usage data gives usage None,
\* never a mapping of zero counts, and a reply with usage data gives a
\* mapping whose every count is the reported one.
C17_UsageAbsentOrReported ==
    (Returned /\ Replied) =>
        /\ response.usage.present = reply.usage.present
        /\ ~reply.usage.present => response.usage = NoUsage
        /\ reply.usage.present =>
              /\ DOMAIN response.usage.counts # {}
              /\ \A k \in DOMAIN response.usage.counts :
                    /\ k \in DOMAIN reply.usage.counts
                    /\ response.usage.counts[k] = reply.usage.counts[k]

C17_Witness ==
    /\ Returned /\ Replied
    /\ ProtocolOf(config.llm_provider) = "chat.completions"
    /\ ~reply.usage.present
    /\ response.usage = NoUsage

C17_WitnessPresent ==
    /\ Returned /\ Replied
    /\ ProtocolOf(config.llm_provider) = "messages"
    /\ reply.usage.present
    /\ response.usage.counts.input_tokens = 3

\* keys of the usage dict the OpenAI-compatible path builds
OpenAIUsageKeys == {"prompt_tokens", "completion_tokens", "total_tokens"}

\* C18: the usage of a response has the same keys whichever provider
\* produced it: the Anthropic path uses the field names of the
\* OpenAI-compatible path.
C18_SameUsageKeys ==
    (Returned /\ response.usage.present) =>
        DOMAIN response.usage.counts = OpenAIUsageKeys

\* C19: on the Anthropic path a reply with an empty content list gives
\* content "" and no error, and a reply with a non-empty content list gives
\* the text of its first block.
C19_AnthropicFirstBlockOrEmpty ==
    (ProtocolOf(config.llm_provider) = "messages" /\ Replied) =>
        /\ upstream = NoExc
        /\ Returned
        /\ response.content = IF reply.items = << >> THEN "" ELSE reply.items[1]

C19_Witness ==
    /\ ProtocolOf(config.llm_provider) = "messages"
    /\ Replied
    /\ reply.items = << >>
    /\ Returned
    /\ response.content = ""
    /\ exc = NoExc

C19_WitnessFirstBlock ==
    /\ ProtocolOf(config.llm_provider) = "messages"
    /\ Replied
    /\ Len(reply.items) = MaxChoices
    /\ response.content = reply.items[1]
    /\ response.content # reply.items[MaxChoices]

\* the key the configured scheme names, None when it names none
SchemeKey ==
    IF config.llm_provider \in {"openai", "anthropic", "grok"}
    THEN config.llm_provider \o "_api_key"
    ELSE IF config.llm_provider = "custom" /\ config.llm_auth_type = "api_key"
    THEN "custom_api_key"
    ELSE IF config.llm_provider = "custom" /\ config.llm_auth_type = "bearer_token"
    THEN "custom_bearer_token"
    ELSE None

\* the credential kind the configured scheme names
SchemeKind ==
    IF config.llm_provider = "custom" /\ config.llm_auth_type = "bearer_token"
    THEN "bearer_token"
    ELSE "api_key"

\* C20: get_llm_credentials resolves exactly the key the scheme names
\* (custom_api_key under api_key, custom_bearer_token under bearer_token,
\* <provider>_api_key for openai, anthropic and grok) and nothing under
\* none; the returned set holds at most the one kind the scheme names, and
\* its value is the one stored under that key.
C20_SchemeToKeyTotal ==
    (pc # "provider_init"
       /\ config.llm_provider \in {"openai", "anthropic", "grok", "custom"}) =>
        IF SchemeKey = None
        THEN credRes = NoRes /\ credentials = EmptyDict
        ELSE /\ credRes.op = "get"
             /\ credRes.key = SchemeKey
             /\ DOMAIN credentials \subseteq {SchemeKind}
             /\ \A kind \in DOMAIN credentials :
                   credentials[kind] = KeySecret(SchemeKey)
             /\ (~credRes.krThrew /\ SchemeKey \in DOMAIN keyring) =>
                   DOMAIN credentials = {SchemeKind}

C20_Witness ==
    /\ pc # "provider_init"
    /\ config.llm_provider = "custom"
    /\ config.llm_auth_type = "bearer_token"
    /\ {"custom_api_key", "custom_bearer_token"} \subseteq DOMAIN keyring
    /\ DOMAIN credentials = {"bearer_token"}
    /\ credentials["bearer_token"] = KeySecret("custom_bearer_token")

C20_WitnessNone ==
    /\ pc # "provider_init"
    /\ config.llm_provider = "custom"
    /\ config.llm_auth_type = "none"
    /\ {"custom_api_key", "custom_bearer_token"} \subseteq DOMAIN keyring
    /\ credentials = EmptyDict

\* ------------------------------------------------------------------------
\* Properties of _process_llm_response
\* ------------------------------------------------------------------------

\* _process_llm_response has run on the LLMResponse analyze returned
Processed == Returned /\ pc # "analyze_returned"

\* C13: _process_llm_response never raises because of the content of the
\* reply (malformed JSON, empty string, JSON that is not an object, null):
\* the only exception that leaves it is the I/O failure of output
\* generation.
C13_ParsingTotal ==
    (Processed /\ coreExc # NoExc) => coreExc.type = "OutputError"

\* C14: whenever the content does not decode to a JSON object, by
\* malformed syntax or by a wrong top-level shape, the data handed to
\* display and output generation is the fallback: analysis the entire raw
\* text, status "info", empty lists, additional_info "".
C14_FallbackOnAnyDecodeFailure ==
    (Processed /\ response.content # None
       /\ response.content \notin DOMAIN ObjectOfText) =>
        /\ analysisData.kind = "dict"
        /\ analysisData.val = FallbackData(response.content)
        /\ displayed.shown
        /\ displayed.analysis = response.content
        /\ displayed.status = "info"

\* the texts of the objects with all six fields
FullTexts == {Dumps(o) : o \in FullObjects}

\* C15: a reply that is a JSON object with all six fields reaches display
\* and output generation with every field exactly as written: list order
\* kept, no field added, dropped or rewritten.
C15_RoundTrip ==
    (Processed /\ response.content \in FullTexts) =>
        \E o \in FullObjects :
            /\ Dumps(o) = response.content
            /\ analysisData.kind = "dict"
            /\ DOMAIN analysisData.val = Fields
            /\ \A f \in Fields : analysisData.val[f] = o[f]
            /\ displayed.shown
            /\ \A f \in Fields : displayed[f] = o[f]
            /\ logFile.written => \A f \in Fields : logFile[f] = o[f]

C15_Witness ==
    /\ pc = "exit"
    /\ response.content \in FullTexts
    /\ analysisData.kind = "dict"
    /\ analysisData.val.issues = <<"disk full", "inode limit">>
    /\ analysisData.val.troubleshooting_steps = <<StepEntry>>
    /\ analysisData.val.suggested_fixes = <<FixEntry>>
    /\ analysisData.val.additional_info = "note"
    /\ displayed.issues = <<"disk full", "inode limit">>
    /\ logFile.written
    /\ logFile.suggested_fixes = <<FixEntry>>
    /\ fixScript

\* the default the specification gives a missing field
SpecDefault(field) ==
    IF field \in {"issues", "troubleshooting_steps", "suggested_fixes"} THEN << >>
    ELSE IF field = "status" THEN "info"
    ELSE ""

\* C16: for a reply that is a JSON object with some fields missing, every
\* missing field has its default wherever it is consumed, on the console
\* and in the log file alike (empty list for the list fields, "info" for
\* status, "" for analysis and additional_info), and every field present
\* keeps its value.
C16_SameDefaultsEverywhere ==
    (Processed /\ response.content \in DOMAIN ObjectOfText) =>
        \A f \in Fields :
            LET o == ObjectOfText[response.content]
                v == IF f \in DOMAIN o THEN o[f] ELSE SpecDefault(f)
            IN  /\ displayed.shown => displayed[f] = v
                /\ logFile.written => logFile[f] = v

\* ------------------------------------------------------------------------
\* Properties of the client's credential
\* ------------------------------------------------------------------------

\* C30: the client of a custom provider authenticates with the credential
\* validation required: the resolved bearer token under bearer_token, the
\* resolved API key under api_key, and the placeholder 'not-needed' only
\* under none.
C30_ClientCarriesValidatedCredential ==
    (client # NoClient /\ config.llm_provider = "custom") =>
        /\ config.llm_auth_type = "bearer_token" =>
              client.api_key = DictGet(credentials, "bearer_token", None)
        /\ config.llm_auth_type = "api_key" =>
              client.api_key = DictGet(credentials, "api_key", None)
        /\ client.api_key = "not-needed" => config.llm_auth_type = "none"

\* ------------------------------------------------------------------------
\* Properties of analyze_output, the command runners and main
\* ------------------------------------------------------------------------

\* the entries of the event log of the given kinds, in order
EventsOf(kinds) == SelectSeq(events, LAMBDA e : e.ev \in kinds)

\* the calls and returns of the two collaborators of analyze_output
CollaboratorEvents ==
    SelectSeq(events, LAMBDA e : /\ e.ev \in {"call", "return"}
                                 /\ e.arg[1] \in {"analyze", "generate_outputs"})

\* C22: whenever the provider's analyze raises, analyze_output raises
\* LLMError, and neither the display nor generate_outputs runs: no log file
\* and no fix script is written.
C22_AnalyzeFailureStopsOutput ==
    (upstream # NoExc /\ pc # "analyze_raised") =>
        /\ coreExc.type = "LLMError"
        /\ ~displayed.shown
        /\ ~logFile.written
        /\ ~fixScript
        /\ EventsOf({"call", "return", "write"}) = <<Call("analyze")>>

C22_Witness ==
    /\ pc = "exit"
    /\ upstream.type = "APIStatusError"
    /\ coreExc.type = "LLMError"
    /\ Contains(coreExc.msg, upstream.msg)
    /\ ~logFile.written

\* analyze_output returned to its caller
AnalyzeOutputReturned == pc = "main_result" \/ (pc = "exit" /\ coreExc = NoExc)

\* C23: a successful analyze_output calls the provider's analyze once, then
\* generate_outputs once, in that order, and returns what generate_outputs
\* returned.
C23_AnalyzeThenGenerateOnce ==
    AnalyzeOutputReturned =>
        /\ Len(CollaboratorEvents) = 3
        /\ CollaboratorEvents[1] = Call("analyze")
        /\ CollaboratorEvents[2] = Call("generate_outputs")
        /\ CollaboratorEvents[3] = Return("generate_outputs", result)
        /\ Len(netLog) = 1

C23_Witness ==
    /\ pc = "main_result"
    /\ result = "True"
    /\ logFile.written
    /\ CollaboratorEvents =
          <<Call("analyze"), Call("generate_outputs"), Return("generate_outputs", "True")>>

\* the success message is in the event log
PrintedComplete == \E i \in 1..Len(events) : events[i] = Printed(<<CompleteMessage>>)

\* C24: whenever CmdRxCore construction or analysis raises
\* ConfigurationError or LLMError, main reports the error, exits with a
\* non-zero status and never prints the success message.
C24_ErrorsAreFatal ==
    /\ coreExc.type \in {"ConfigurationError", "LLMError"} => ~PrintedComplete
    /\ (pc = "exit" /\ coreExc.type \in {"ConfigurationError", "LLMError"}) =>
          /\ exitCode = "1"
          /\ \E i \in 1..Len(events) :
                /\ events[i].ev = "print"
                /\ Contains(events[i].arg, coreExc.msg)

C24_Witness ==
    /\ pc = "exit"
    /\ coreExc.type = "LLMError"
    /\ exitCode = "1"
    /\ events[Len(events)] = Printed(<<"LLM service error: ">> \o coreExc.msg)

C24_WitnessConfiguration ==
    /\ pc = "exit"
    /\ coreExc.type = "ConfigurationError"
    /\ exitCode = "1"
    /\ events = <<Printed(<<"Configuration error: ">> \o coreExc.msg)>>

\* C25: an LLMError raised by analyze_output reaches main's handlers as
\* LLMError in both input modes: the command runner does not change its
\* kind.
C25_LLMErrorKindKept ==
    (coreExc.type = "LLMError" /\ pc \in {"main_except", "exit"}) =>
        exc.type = "LLMError"

\* the file writes of generate_outputs, in order
Writes == EventsOf({"write"})

\* generate_outputs was called
GenerateOutputsRan == \E i \in 1..Len(events) : events[i] = Call("generate_outputs")

\* C26: generate_outputs writes the log file first; it writes a fix script
\* only if suggested_fixes is non-empty and dry_run is false, and whenever
\* that holds and no write fails; with dry_run no fix script is created
\* whatever the analysis contains.
C26_LogFirstScriptIffFixes ==
    LET fixes == DictGet(analysisData.val, "suggested_fixes", << >>)
    IN  /\ Writes # << >> => Writes[1] = Write("log_file")
        /\ Len(Writes) <= 2
        /\ fixScript <=> (Len(Writes) = 2 /\ Writes[2] = Write("fix_script"))
        /\ fixScript => logFile.written /\ fixes # << >> /\ ~dryRun
        /\ dryRun => ~fixScript
        /\ (GenerateOutputsRan /\ coreExc = NoExc) =>
              /\ logFile.written
              /\ fixScript <=> (fixes # << >> /\ ~dryRun)

C26_Witness ==
    /\ pc = "exit"
    /\ dryRun
    /\ analysisData.kind = "dict"
    /\ DictGet(analysisData.val, "suggested_fixes", << >>) = <<FixEntry>>
    /\ Writes = <<Write("log_file")>>
    /\ ~fixScript

C26_WitnessScript ==
    /\ pc = "exit"
    /\ ~dryRun
    /\ Writes = <<Write("log_file"), Write("fix_script")>>
    /\ fixScript

\* ------------------------------------------------------------------------
\* Properties of storing, then resolving
\* ------------------------------------------------------------------------

\* C27: after _store_credential(k, v) has returned, by the keyring or by
\* the file, the next _get_credential(k) returns v, whatever the keyring,
\* the environment variable CMDRX_<K> and the file held before; the keyring
\* is as available to the second call as it was to the first.
C27_StoreThenResolve ==
    (credRes.op = "get" /\ credRes.prev.value # None
       /\ credRes.prev.krThrew = credRes.krThrew) =>
        credRes.ret = credRes.prev.value

\* ------------------------------------------------------------------------
\* Properties of the file fallback, statement by statement
\* ------------------------------------------------------------------------

\* the file holds at least one non-empty credential
HoldsSecret(file) ==
    /\ file.exists
    /\ file.kind = "object"
    /\ \E k \in DOMAIN file.map : file.map[k] \in Secrets

\* C28: in every state of the file fallback, the states between its
\* statements included, a credentials.json that holds a secret has mode
\* 0600.
C28_SecretOnlyOwnerOnly ==
    HoldsSecret(credsFile) => credsFile.mode = OwnerOnly

\* both callers went through the file fallback and returned
BothStoredByFile ==
    \A c \in Callers : callers[c].pc = "returned" /\ callers[c].path = "file"

\* C29: when two calls for different keys have both returned through the
\* file fallback, the file holds both keys with the values stored, in
\* every interleaving of their statements.
C29_NoLostUpdate ==
    BothStoredByFile =>
        /\ credsFile.kind = "object"
        /\ \A c \in Callers :
             /\ callers[c].key \in DOMAIN credsFile.map
             /\ credsFile.map[callers[c].key] = callers[c].value

\* ------------------------------------------------------------------------
\* Properties of the configuration UI
\* ------------------------------------------------------------------------

\* the string values of a configuration dictionary
TextValues(d) == {d[k] : k \in (DOMAIN d) \ NonTextKeys}

\* every write of config.json leaves it without an entry whose key contains
\* 'password', 'key' or 'token'
SavedWithoutSensitiveKeys ==
    [][configFile' # configFile =>
          \A k \in DOMAIN configFile'.map : ~Sensitive(k)]_vars

\* no write of config.json puts a value passed to _store_credential in it
NoPassedValueWritten ==
    [][configFile' # configFile =>
          TextValues(configFile'.map) \cap passed' = {}]_vars

\* no value passed to _store_credential is in the dictionary get_config
\* returns
NoPassedValueInConfig == TextValues(config) \cap passed = {}

====
